---- MODULE Spec2Model ----
(***************************************************************************)
(* Session discovery and companion-process lifecycle of zeke.nvim          *)
(* (src/src/discovery.rs), together with the environment it talks to: the  *)
(* session directory, the companion processes and their listening ports;   *)
(* and the protocol client (src/src/websocket.rs) with its two pump tasks.  *)
(***************************************************************************)
EXTENDS Integers, Sequences, FiniteSets, TLC

\* ------------------------------------------------------------------ bounds
MaxStart == 2          \* start_time values are 1..MaxStart
MaxPortOffset == 1     \* ports are DefaultPort..DefaultPort+MaxPortOffset
PassMs == 4900         \* modelled duration of one discover_sessions pass, in ms
MaxHandlers == 2       \* handlers registered on one client
MaxQueued == 2         \* frames the channel of one connection accepts
MaxInbound == 2        \* frames the receiver task reads on one connection
MaxToken == 2          \* auth tokens are 1..MaxToken
MaxConsent == 3        \* times in a row the backend requires consent for one call
MaxTasks == 3          \* tasks created by create_task
MaxChunks == 2         \* chunks the body of one streamed response holds
MaxExecs == 2          \* commands the terminal is given
MaxCapacity == 2       \* capacities of a StreamBuffer are 0..MaxCapacity
MaxPushes == 5         \* chunks pushed to a StreamBuffer between two clears

\* ------------------------------------------------------- program constants
DefaultPort == 8081        \* port.unwrap_or(8081)
StartTimeoutSecs == 10     \* timeout(Duration::from_secs(10), ...)
PollIntervalMs == 100      \* tokio::time::sleep(Duration::from_millis(100))
HealthTimeoutSecs == 2     \* timeout(Duration::from_secs(2), connect_async)

\* Two companion processes, an older and a newer one; a companion's session id
\* is its pid.
Pids == {1, 2}
NoPid == 0
Ports == DefaultPort..(DefaultPort + MaxPortOffset)
StartTimes == 1..MaxStart
\* seconds a listener needs to complete the WebSocket handshake: one value on
\* each side of the health probe's timeout
Latencies == {HealthTimeoutSecs, HealthTimeoutSecs + 1}

Absent == [kind |-> "absent"]      \* no such file
Garbage == [kind |-> "garbage"]    \* file content that is not a ZekeSessionInfo

\* A directory entry name: "<stem>.<ext>".
LockName(sid) == [stem |-> sid, ext |-> "lock"]
StrayName == [stem |-> 1, ext |-> "bak"]
FileNames == {LockName(p) : p \in Pids} \cup {StrayName}

ZekeSessionInfo == [port : Ports, session_id : Pids, pid : Pids, start_time : StartTimes]

VARIABLES
    proc,        \* companion process p: "unborn", "launched", "wrote", "dead"
    reqPort,     \* the --port each companion was launched with
    latency,     \* seconds an endpoint on this host takes to complete a handshake
    listener,    \* which process listens on each port (NoPid: none)
    dirExists,   \* session_dir exists
    files,       \* session_dir: file name -> content (Absent when no file)
    pc,          \* where the client is inside its current operation
    op,          \* the public operation in progress
    port,        \* the port start_zeke_cli waits for
    target,      \* the session stop_session was called with
    graceful,    \* outcome of send_shutdown_signal in the current stop_session
    acked,       \* the companion acknowledged the shutdown request
    killSent,    \* force_kill_session ran in the current stop_session
    child,       \* pid spawned by the current start_zeke_cli (NoPid: none)
    spawns,      \* cmd.spawn() calls made by the operation
    elapsed,     \* ms spent inside start_zeke_cli's timeout(...)
    sessions,    \* Vec returned by the discover_sessions pass just made
    purged,      \* files removed by the discover_sessions pass just made
    before,      \* session_dir as that pass (or stop_session) found it
    passed,      \* a discover_sessions pass has just been made
    listing,     \* Vec returned by the list_all_sessions call just made
    ret          \* what the operation that has just returned gave back
                 \* (forgotten as soon as anything else happens)

\* websocket.rs: WebSocketClient and the tasks connect spawns
VARIABLES
    client_session,   \* WebSocketClient.session (NoZekeSession: None)
    client_sender,    \* WebSocketClient.sender is Some
    message_handlers, \* WebSocketClient.message_handlers, in registration order
    chan,             \* frames waiting in the unbounded channel (tx -> rx)
    rxAlive,          \* the receiving half rx has not been dropped
    inflight,         \* the frame the sender task took and is writing
    senderTask,       \* "none", "recv", "write", "ended"
    receiverTask,     \* "none", "read", "dispatch", "ended"
    idx,              \* position of the handler loop inside a dispatch
    arrived,          \* frames read.next() yielded on this connection, in order
    snapshot,         \* the handlers registered when each of them was read
    delivered,        \* handler invocations made on this connection, in order
    enqueued,         \* frames the channel accepted on this connection, in order
    wire,             \* frames written to the transport on this connection, in order
    wsRet             \* what the client operation that has just returned gave back

\* websocket.rs: the tasks of the connection that a later connect replaced
VARIABLES
    prev              \* what those tasks hold and what they did since then

\* providers/mod.rs and providers.rs: the two ProviderManagers
VARIABLES
    current_provider, \* providers/mod.rs: the provider the manager holds (its kind)
    provider_type,    \* providers/mod.rs: ProviderManager.provider_type
    ghostllm_enabled, \* providers/mod.rs: ProviderManager.ghostllm_enabled
    named_provider,   \* providers.rs: ProviderManager.current_provider
    gwRet             \* what the manager operation that has just returned gave back

gwVars == <<current_provider, provider_type, ghostllm_enabled, named_provider, gwRet>>

\* terminal.rs: TaskManager; lib.rs: ZekeState.provider_manager
VARIABLES
    locks,    \* who holds a guard of each RwLock
    tasks,    \* TaskManager.tasks: id -> Task
    next_id,  \* TaskManager.next_id
    local,    \* where each caller is in its operation, and the operation's locals
    created   \* the ids create_task inserted, in the order of the inserts

taskVars == <<locks, tasks, next_id, local, created>>

\* discovery.rs: two ZekeDiscovery instances working on the same session_dir
VARIABLES
    cl        \* where each instance is in its operation, and the operation's locals

raceVars == <<cl>>

\* terminal.rs: Terminal
VARIABLES
    execs     \* task id -> the executor of that task

execVars == <<execs>>

\* streaming.rs: StreamBuffer
VARIABLES
    constructed, \* a StreamBuffer has been constructed
    capacity, \* StreamBuffer.capacity
    buffer,   \* StreamBuffer.buffer
    pushes,   \* the chunks pushed since the buffer was new or cleared, in order
    sbRet     \* how the call of the buffer that has just returned ended

bufferVars == <<constructed, capacity, buffer, pushes, sbRet>>

wsVars == <<client_session, client_sender, message_handlers, chan, rxAlive, inflight,
            senderTask, receiverTask, idx, arrived, snapshot, delivered, enqueued, wire,
            wsRet>>

envVars == <<proc, reqPort, latency, listener>>
stopVars == <<target, graceful, acked, killSent>>
startVars == <<port, child, spawns, elapsed>>
passVars == <<sessions, purged, before, passed>>
vars == <<proc, reqPort, latency, listener, dirExists, files, pc, op, port, target,
          graceful, acked, killSent, child, spawns, elapsed, sessions, purged, before, passed,
          listing, ret>>

\* what the operations of one part of the program leave alone
nonRaceVars == <<wsVars, prev, gwVars, taskVars, execVars, bufferVars>>
nonDiscoveryVars == <<nonRaceVars, raceVars>>
nonWsVars == <<vars, gwVars, taskVars, raceVars, execVars, bufferVars>>
nonGatewayVars == <<vars, wsVars, prev, taskVars, raceVars, execVars, bufferVars>>
nonTaskVars == <<vars, wsVars, prev, gwVars, raceVars, execVars, bufferVars>>
nonExecVars == <<vars, wsVars, prev, gwVars, raceVars, bufferVars>>
nonBufferVars == <<vars, wsVars, prev, gwVars, taskVars, raceVars, execVars>>
\* what an operation on the session directory leaves alone besides the
\* directory's files and the companions
clientVars == <<dirExists, pc, op, stopVars, startVars, passVars, listing, ret>>

Running(p) == proc[p] \in {"launched", "wrote"}

\* ---------------------------------------------------------------- helpers
Perms(S) == {s \in [1..Cardinality(S) -> S] : \A i, j \in 1..Cardinality(S) : s[i] = s[j] => i = j}

Range(s) == {s[i] : i \in 1..Len(s)}

NoSession == [port |-> 0, session_id |-> 0, pid |-> 0, start_time |-> 0]

\* ------------------------------------------------- discovery.rs, pure parts
\* file_name.ends_with(".lock")
ends_with_lock(name) == name.ext = "lock"

\* read_to_string + serde_json::from_str: Err for a missing file or a content
\* that is not a ZekeSessionInfo
parse_lock_file(content) ==
    IF DOMAIN content = DOMAIN NoSession
    THEN [ok |-> TRUE, session |-> content]
    ELSE [ok |-> FALSE, session |-> NoSession]

\* kill -0 <pid> exits successfully
is_process_running(pid) == Running(pid)

\* mutant: the probe waits for the handshake however long it takes
check_websocket_health_no_timeout(p) == listener[p] # NoPid

\* connect_async("ws://localhost:<port>/health") completes within the timeout:
\* Ok(Ok(_)) => true, a refused connection or an expired timeout => false
check_websocket_health(p) ==
    /\ listener[p] # NoPid
    /\ latency <= HealthTimeoutSecs

\* mutant: the pid is never looked at
is_session_active_port_only(session) == check_websocket_health(session.port)

is_session_active(session) ==
    IF ~is_process_running(session.pid)
    THEN FALSE
    ELSE check_websocket_health(session.port)

\* One step of a stable sort: x goes behind every element that does not
\* compare greater under |a, b| b.start_time.cmp(&a.start_time).
InsertStable(s, x) ==
    LET k == Cardinality({i \in 1..Len(s) : s[i].start_time >= x.start_time})
    IN SubSeq(s, 1, k) \o <<x>> \o SubSeq(s, k + 1, Len(s))

\* mutant: a.start_time.cmp(&b.start_time), oldest first
RECURSIVE sort_oldest_first(_)
sort_oldest_first(s) ==
    IF s = <<>> THEN <<>>
    ELSE LET rest == sort_oldest_first(SubSeq(s, 1, Len(s) - 1))
             x == s[Len(s)]
             k == Cardinality({i \in 1..Len(rest) : rest[i].start_time <= x.start_time})
         IN SubSeq(rest, 1, k) \o <<x>> \o SubSeq(rest, k + 1, Len(rest))

\* sessions.sort_by(|a, b| b.start_time.cmp(&a.start_time)): stable, newest first
RECURSIVE sort_newest_first(_)
sort_newest_first(s) ==
    IF s = <<>> THEN <<>>
    ELSE InsertStable(sort_newest_first(SubSeq(s, 1, Len(s) - 1)), s[Len(s)])

\* fs::remove_file: an error when there is no such file
fs_remove_file(fs, name) ==
    IF fs[name] = Absent
    THEN [ok |-> FALSE, files |-> fs]
    ELSE [ok |-> TRUE, files |-> [fs EXCEPT ![name] = Absent]]

\* mutant: parse_lock_file(..).await? ends the enumeration at a record that
\* does not parse
RECURSIVE scan_entries_abort(_, _, _)
scan_entries_abort(order, fs, acc) ==
    IF order = <<>> THEN [files |-> fs, sessions |-> acc]
    ELSE LET name == Head(order)
             parsed == parse_lock_file(fs[name])
         IN IF ~ends_with_lock(name) THEN scan_entries_abort(Tail(order), fs, acc)
            ELSE IF ~parsed.ok THEN [files |-> fs, sessions |-> acc]
            ELSE IF is_session_active(parsed.session)
                 THEN scan_entries_abort(Tail(order), fs, Append(acc, parsed.session))
                 ELSE scan_entries_abort(Tail(order), fs_remove_file(fs, name).files, acc)

\* The while-let loop of discover_sessions over the entries in the order
\* read_dir yields them: fs is the directory so far, acc the Vec so far. A
\* stale record goes with `let _ = fs::remove_file(..)`, its result dropped.
RECURSIVE scan_entries(_, _, _)
scan_entries(order, fs, acc) ==
    IF order = <<>> THEN [files |-> fs, sessions |-> acc]
    ELSE LET name == Head(order)
             parsed == parse_lock_file(fs[name])
         IN IF ends_with_lock(name) /\ parsed.ok
            THEN IF is_session_active(parsed.session)
                 THEN scan_entries(Tail(order), fs, Append(acc, parsed.session))
                 ELSE scan_entries(Tail(order), fs_remove_file(fs, name).files, acc)
            ELSE scan_entries(Tail(order), fs, acc)

\* The entries of session_dir, and the orders read_dir may yield them in.
Entries == {f \in FileNames : files[f] # Absent}
EntryOrders == Perms(Entries)

\* mutant: read_dir without the exists() test before it: `?` hands the caller
\* the error of reading a directory that is not there
discover_sessions_unguarded(order) ==
    IF ~dirExists
    THEN [ok |-> FALSE, files |-> files, sessions |-> <<>>]
    ELSE LET r == scan_entries(order, files, <<>>)
         IN [ok |-> TRUE, files |-> r.files, sessions |-> sort_newest_first(r.sessions)]

\* discover_sessions: whether it returns Ok, the directory it leaves and the
\* Vec it returns
discover_sessions(order) ==
    IF ~dirExists
    THEN [ok |-> TRUE, files |-> files, sessions |-> <<>>]
    ELSE LET r == scan_entries(order, files, <<>>)
         IN [ok |-> TRUE, files |-> r.files, sessions |-> sort_newest_first(r.sessions)]

\* One step of the stable sort of list_all_sessions, on (session, is_active)
\* pairs: |a, b| b.0.start_time.cmp(&a.0.start_time).
InsertStablePair(s, x) ==
    LET ahead == {i \in 1..Len(s) : s[i].session.start_time >= x.session.start_time}
        k == IF ahead = {} THEN 0 ELSE CHOOSE i \in ahead : \A j \in ahead : j <= i
    IN SubSeq(s, 1, k) \o <<x>> \o SubSeq(s, k + 1, Len(s))

RECURSIVE sort_pairs_newest_first(_)
sort_pairs_newest_first(s) ==
    IF s = <<>> THEN <<>>
    ELSE InsertStablePair(sort_pairs_newest_first(SubSeq(s, 1, Len(s) - 1)), s[Len(s)])

\* mutant: the loop of discover_sessions in list_all_sessions: an inactive
\* record is removed and left out
RECURSIVE list_entries_purging(_, _, _)
list_entries_purging(order, fs, acc) ==
    IF order = <<>> THEN [files |-> fs, sessions |-> acc]
    ELSE LET name == Head(order)
             parsed == parse_lock_file(fs[name])
         IN IF ends_with_lock(name) /\ parsed.ok
            THEN IF is_session_active(parsed.session)
                 THEN list_entries_purging(Tail(order), fs,
                         Append(acc, [session |-> parsed.session, active |-> TRUE]))
                 ELSE list_entries_purging(Tail(order), fs_remove_file(fs, name).files, acc)
            ELSE list_entries_purging(Tail(order), fs, acc)

\* The while-let loop of list_all_sessions: every .lock entry that parses is
\* pushed with the result of is_session_active; no file is touched.
RECURSIVE list_entries(_, _, _)
list_entries(order, fs, acc) ==
    IF order = <<>> THEN [files |-> fs, sessions |-> acc]
    ELSE LET name == Head(order)
             parsed == parse_lock_file(fs[name])
         IN IF ends_with_lock(name) /\ parsed.ok
            THEN list_entries(Tail(order), fs,
                    Append(acc, [session |-> parsed.session,
                                 active |-> is_session_active(parsed.session)]))
            ELSE list_entries(Tail(order), fs, acc)

\* list_all_sessions: the directory it leaves and the Vec it returns
list_all_sessions(order) ==
    IF ~dirExists
    THEN [files |-> files, sessions |-> <<>>]
    ELSE LET r == list_entries(order, files, <<>>)
         IN [files |-> r.files, sessions |-> sort_pairs_newest_first(r.sessions)]

\* sessions.into_iter().next()
first_session(s) == IF s = <<>> THEN NoSession ELSE s[1]

\* sessions.into_iter().find(|s| s.port == port)
find_by_port(s, p) ==
    LET hits == {i \in 1..Len(s) : s[i].port = p}
    IN IF hits = {} THEN NoSession
       ELSE s[CHOOSE i \in hits : \A j \in hits : i <= j]

\* ------------------------------------------------------------ environment
\* Pids are handed out in increasing order.
NextPid == IF \E p \in Pids : proc[p] = "unborn"
           THEN CHOOSE p \in Pids : proc[p] = "unborn" /\ \A q \in Pids : q < p => proc[q] # "unborn"
           ELSE NoPid

Release(p) == [q \in Ports |-> IF listener[q] = p THEN NoPid ELSE listener[q]]

NoFiles == [f \in FileNames |-> Absent]
Ok(o, kind, s) == [op |-> o, kind |-> kind, session |-> s, err |-> "none"]
Err(o, e) == [op |-> o, kind |-> "err", session |-> NoSession, err |-> e]
NoRet == Ok("none", "none", NoSession)

\* An operation other than list_all_sessions.
NoListing == listing' = <<>>

\* An operation other than stop_session.
NoStop ==
    /\ target' = NoSession
    /\ graceful' = "none"
    /\ acked' = FALSE
    /\ killSent' = FALSE

\* What was observed of the last return is only looked at in the state the
\* return leads to.
Forget ==
    /\ ret' = NoRet
    /\ sessions' = <<>>
    /\ purged' = {}
    /\ before' = NoFiles
    /\ passed' = FALSE
    /\ NoListing
    /\ UNCHANGED nonDiscoveryVars
    /\ NoStop
    /\ spawns' = IF pc = "idle" THEN 0 ELSE spawns
    /\ port' = IF pc = "idle" THEN DefaultPort ELSE port
    /\ child' = IF pc = "idle" THEN NoPid ELSE child

\* The clock start_time is read from does not run backwards.
Now == {t \in StartTimes : \A f \in FileNames :
            DOMAIN files[f] = DOMAIN NoSession => files[f].start_time <= t}

\* Somebody else (another editor instance, the user) launches a companion.
ExtLaunch(prt) ==
    /\ NextPid # NoPid
    /\ proc' = [proc EXCEPT ![NextPid] = "launched"]
    /\ reqPort' = [reqPort EXCEPT ![NextPid] = prt]
    /\ Forget
    /\ UNCHANGED <<latency, listener, dirExists, files, pc, op, elapsed>>

\* A companion writes its lock record, once, named by its session id.
ProcWrite(p, t) ==
    /\ proc[p] = "launched"
    /\ t \in Now
    /\ proc' = [proc EXCEPT ![p] = "wrote"]
    /\ dirExists' = TRUE
    /\ files' = [files EXCEPT ![LockName(p)] =
                    [port |-> reqPort[p], session_id |-> p, pid |-> p, start_time |-> t]]
    /\ Forget
    /\ UNCHANGED <<reqPort, latency, listener, pc, op, elapsed>>

\* A lock record that is not (yet) a complete JSON object.
ProcWriteTorn(p) ==
    /\ proc[p] = "launched"
    /\ proc' = [proc EXCEPT ![p] = "wrote"]
    /\ dirExists' = TRUE
    /\ files' = [files EXCEPT ![LockName(p)] = Garbage]
    /\ Forget
    /\ UNCHANGED <<reqPort, latency, listener, pc, op, elapsed>>

\* A companion binds the port it was launched with, if the port is free.
ProcListen(p) ==
    /\ Running(p)
    /\ listener[reqPort[p]] = NoPid
    /\ listener' = [listener EXCEPT ![reqPort[p]] = p]
    /\ Forget
    /\ UNCHANGED <<proc, reqPort, latency, dirExists, files, pc, op, elapsed>>

Dies(p) ==
    /\ proc' = [proc EXCEPT ![p] = "dead"]
    /\ reqPort' = [reqPort EXCEPT ![p] = DefaultPort]
    /\ listener' = Release(p)
    /\ UNCHANGED latency

\* A companion dies and leaves its lock record behind.
ProcCrash(p) ==
    /\ Running(p)
    /\ Dies(p)
    /\ Forget
    /\ UNCHANGED <<dirExists, files, pc, op, elapsed>>

\* A companion shuts down and removes its own lock record.
ProcShutdown(p) ==
    /\ Running(p)
    /\ Dies(p)
    /\ files' = [files EXCEPT ![LockName(p)] = Absent]
    /\ Forget
    /\ UNCHANGED <<dirExists, pc, op, elapsed>>

\* A copy of a lock record under a name that does not end in ".lock".
StrayCopy ==
    /\ files[LockName(StrayName.stem)] # Absent
    /\ files[StrayName] = Absent
    /\ files' = [files EXCEPT ![StrayName] = files[LockName(StrayName.stem)]]
    /\ Forget
    /\ UNCHANGED <<envVars, dirExists, pc, op, elapsed>>

\* The host gets slower or faster at answering handshakes.
LoadChange(lat) ==
    /\ lat # latency
    /\ latency' = lat
    /\ Forget
    /\ UNCHANGED <<proc, reqPort, listener, dirExists, files, pc, op, elapsed>>

Env ==
    \/ \E prt \in Ports : ExtLaunch(prt)
    \/ \E p \in Pids, t \in StartTimes : ProcWrite(p, t)
    \/ \E p \in Pids : ProcWriteTorn(p)
    \/ \E p \in Pids : ProcListen(p)
    \/ \E lat \in Latencies : LoadChange(lat)
    \/ \E p \in Pids : ProcCrash(p)
    \/ \E p \in Pids : ProcShutdown(p)
    \/ StrayCopy

\* ------------------------------------------------------ discovery.rs, client
\* One call of discover_sessions with read_dir yielding `order`.
Pass(order) ==
    LET r == discover_sessions(order)
    IN /\ files' = r.files
       /\ sessions' = r.sessions
       /\ purged' = {f \in FileNames : files[f] # r.files[f]}
       /\ before' = files
       /\ passed' = TRUE
       /\ NoListing
       /\ UNCHANGED nonDiscoveryVars

\* An operation that never gets to start_zeke_cli.
NoStart ==
    /\ spawns' = 0
    /\ port' = DefaultPort
    /\ child' = NoPid

\* pub async fn discover_sessions
CallDiscover ==
    /\ pc = "idle"
    /\ \E order \in EntryOrders :
          /\ Pass(order)
          /\ ret' = IF discover_sessions(order).ok
                    THEN Ok("discover_sessions", "list", NoSession)
                    ELSE Err("discover_sessions", "read_dir")
    /\ NoStart
    /\ NoStop
    /\ UNCHANGED <<envVars, dirExists, pc, op, elapsed>>

\* pub async fn find_active_session
CallFindActive ==
    /\ pc = "idle"
    /\ \E order \in EntryOrders :
          /\ Pass(order)
          /\ ret' = IF ~discover_sessions(order).ok
                    THEN Err("find_active_session", "read_dir")
                    ELSE IF sessions' = <<>>
                    THEN Ok("find_active_session", "none", NoSession)
                    ELSE Ok("find_active_session", "some", first_session(sessions'))
    /\ NoStart
    /\ NoStop
    /\ UNCHANGED <<envVars, dirExists, pc, op, elapsed>>

\* pub async fn list_all_sessions
CallListAll ==
    /\ pc = "idle"
    /\ \E order \in EntryOrders :
          LET r == list_all_sessions(order)
          IN /\ files' = r.files
             /\ listing' = r.sessions
    /\ ret' = Ok("list_all_sessions", "list", NoSession)
    /\ UNCHANGED nonDiscoveryVars
    /\ before' = files
    /\ sessions' = <<>>
    /\ purged' = {}
    /\ passed' = FALSE
    /\ NoStart
    /\ NoStop
    /\ UNCHANGED <<envVars, dirExists, pc, op, elapsed>>

\* start_zeke_cli up to its polling loop: create_dir_all, then cmd.spawn()?.
\* spawned says whether the zeke executable could be started.
Launch(o, prt, spawned) ==
    /\ dirExists' = TRUE
    /\ spawns' = 1
    /\ port' = prt
    /\ UNCHANGED <<latency, listener>>
    /\ IF spawned /\ NextPid # NoPid
       THEN /\ proc' = [proc EXCEPT ![NextPid] = "launched"]
            /\ reqPort' = [reqPort EXCEPT ![NextPid] = prt]
            /\ child' = NextPid
            /\ elapsed' = 0
            /\ pc' = "polling"
            /\ op' = o
            /\ ret' = NoRet
       ELSE /\ ret' = Err(o, "spawn")
            /\ child' = NoPid
            /\ UNCHANGED <<proc, reqPort, elapsed, pc, op>>

\* pub async fn start_zeke_cli(port): None is port 8081
CallStart(prt, spawned) ==
    /\ pc = "idle"
    /\ Launch("start_zeke_cli", prt, spawned)
    /\ NoListing
    /\ UNCHANGED nonDiscoveryVars
    /\ sessions' = <<>>
    /\ purged' = {}
    /\ before' = NoFiles
    /\ passed' = FALSE
    /\ NoStop
    /\ UNCHANGED files

\* pub async fn ensure_connection: find_active_session, and start_zeke_cli(None)
\* when it found nothing
CallEnsure(spawned) ==
    /\ pc = "idle"
    /\ \E order \in EntryOrders : Pass(order)
    /\ IF first_session(sessions') # NoSession
       THEN /\ ret' = Ok("ensure_connection", "some", first_session(sessions'))
            /\ NoStart
            /\ UNCHANGED <<envVars, dirExists, pc, op, elapsed>>
       ELSE Launch("ensure_connection", DefaultPort, spawned)
    /\ NoStop

\* mutant: the timeout taken in minutes
deadline_in_minutes == StartTimeoutSecs * 60 * 1000

\* timeout(Duration::from_secs(10), ..), in ms
Deadline == StartTimeoutSecs * 1000

\* One iteration of the loop inside timeout(10 s): find_session_by_port, and
\* either return the session or sleep 100 ms.
Poll ==
    /\ pc = "polling"
    /\ elapsed < Deadline
    /\ \E order \in EntryOrders : Pass(order)
    /\ LET hit == find_by_port(sessions', port)
       IN IF hit # NoSession
          THEN /\ ret' = Ok(op, "some", hit)
               /\ pc' = "idle"
               /\ op' = "none"
               /\ elapsed' = 0
          ELSE /\ ret' = NoRet
               /\ elapsed' = elapsed + PassMs + PollIntervalMs
               /\ UNCHANGED <<pc, op>>
    /\ UNCHANGED <<envVars, dirExists, stopVars, port, child, spawns>>

\* The timeout expires: `.await??` hands Elapsed to the caller.
PollTimeout ==
    /\ pc = "polling"
    /\ elapsed >= Deadline
    /\ ret' = Err(op, "timeout")
    /\ NoListing
    /\ UNCHANGED nonDiscoveryVars
    /\ pc' = "idle"
    /\ op' = "none"
    /\ elapsed' = 0
    /\ sessions' = <<>>
    /\ purged' = {}
    /\ before' = NoFiles
    /\ passed' = FALSE
    /\ UNCHANGED <<envVars, dirExists, files, stopVars, port, child, spawns>>

\* Sessions a caller may hold: read from the directory, returned by a pass,
\* purged by it, or passed to stop_session before.
Held ==
    {files[f] : f \in {g \in FileNames : parse_lock_file(files[g]).ok}}
        \cup Range(sessions)
        \cup {before[f] : f \in purged}
        \cup ({target} \ {NoSession})

\* send_shutdown_signal: connect_async(ws://localhost:<port>) and one send;
\* sendOk says whether the write went through.
send_shutdown_signal(session, sendOk) ==
    IF listener[session.port] = NoPid THEN "err"
    ELSE IF sendOk THEN "ok" ELSE "err"

\* The lock file stop_session looks for and removes.
stop_lock_file(session) == LockName(session.session_id)

\* mutant: remove_file(lock_file)? without the exists() test
remove_lock_file_unchecked(fs, session) == fs_remove_file(fs, stop_lock_file(session))

\* stop_session's clean-up: if lock_file.exists() { remove_file(lock_file)? }
remove_lock_file(fs, session) ==
    IF fs[stop_lock_file(session)] # Absent
    THEN fs_remove_file(fs, stop_lock_file(session))
    ELSE [ok |-> TRUE, files |-> fs]

\* if let Err(_) = send_shutdown_signal(..) { force_kill_session(..)? }
needs_force_kill(outcome) == outcome = "err"

\* pub async fn stop_session(session). acks: the companion answers the
\* shutdown request; dies: the companion ends on SIGTERM.
CallStop(session, sendOk, acks, dies) ==
    /\ pc = "idle"
    /\ session \in Held
    /\ LET outcome == send_shutdown_signal(session, sendOk)
           kill == needs_force_kill(outcome)
       IN /\ graceful' = outcome
          /\ acked' = (outcome = "ok" /\ acks)
          /\ killSent' = kill
          /\ IF kill /\ dies /\ Running(session.pid)
             THEN Dies(session.pid)
             ELSE UNCHANGED envVars
    /\ LET removal == remove_lock_file(files, session)
       IN /\ files' = removal.files
          /\ ret' = IF removal.ok THEN Ok("stop_session", "unit", session)
                    ELSE Err("stop_session", "remove_file")
    /\ target' = session
    /\ NoListing
    /\ UNCHANGED nonDiscoveryVars
    /\ sessions' = <<>>
    /\ purged' = {}
    /\ before' = files
    /\ passed' = FALSE
    /\ NoStart
    /\ UNCHANGED <<dirExists, pc, op, elapsed>>

\* ------------------------------------------------------------ websocket.rs
\* A tungstenite Message, or a Text frame's JSON, reduced to what the client
\* looks at: the kind of frame, the "type"/"method" of a Text frame's JSON
\* object, and a number (the id of a request, the token of the auth message,
\* the payload of a Ping or Pong, the id of an ActionRequest or of the answer
\* to one), and for the consent handshake the request's action_type and the
\* answer's two flags.
Frame(kind, tag, n) ==
    [kind |-> kind, tag |-> tag, n |-> n, action_type |-> "", approved |-> FALSE,
     session |-> FALSE]
NoFrame == Frame("none", "", 0)

Tokens == 1..MaxToken
ActionIds == {1}
RequestIds == {1, 2}
ActionTypes == {"modify", "delete"}
Payloads == {1}

ZekeSession == [port : {DefaultPort}, auth_token : Tokens, session_id : {1}]
NoZekeSession == [port |-> 0, auth_token |-> 0, session_id |-> 0]

\* #[serde(tag = "type")] pub enum StreamMessage
StreamMessage ==
    {"ChatDelta", "Error", "StreamStart", "StreamEnd", "Ping", "Pong",
     "ActionRequest", "ActionResponse"}

\* What the companion may send: Text frames whose "type" is a variant, one
\* whose "type" is none (a variant of a later protocol version), Ping, Binary
\* and Close frames.
InFrames ==
    {Frame("Text", t, 0) : t \in {"ChatDelta", "Ping", "Progress"}}
        \cup {Frame("Ping", "", p) : p \in Payloads}
        \cup {Frame("Binary", "", 0), Frame("Close", "", 0)}

\* {"type": "ActionRequest", "action": {"id", "action_type", ..}}
ActionRequest(id, action_type) ==
    [Frame("Text", "ActionRequest", id) EXCEPT !.action_type = action_type]

\* What the companion sends when it asks for consent
ActionFrames ==
    {ActionRequest(id, t) : id \in RequestIds, t \in ActionTypes}

\* mutant: every JSON object with a "type" is taken for a StreamMessage
from_str_any(text) == [ok |-> TRUE, msg |-> text.tag]

\* serde_json::from_str::<StreamMessage>(&text)
from_str(text) == [ok |-> text.tag \in StreamMessage, msg |-> text.tag]

\* mutant: the auth message without the session's token
auth_message_no_token(s) == Frame("Text", "auth", 0)

\* json!({"type": "auth", "token": session.auth_token})
auth_message(s) == Frame("Text", "auth", s.auth_token)

\* Uuid::new_v4(): an id no other request of the connection has
new_v4 == Len(enqueued) + 1

\* JsonRpcRequest { jsonrpc, method, params, id }, serialized into a Text frame
JsonRpcRequest(method, id) == Frame("Text", method, id)

\* mutant: the channel takes a frame whether or not anybody will receive it
sender_send_unchecked == TRUE

\* UnboundedSender::send is Ok while the receiving half exists
sender_send == rxAlive

\* mutant: the newest frame first
rx_recv_newest(q) == [message |-> q[Len(q)], rest |-> SubSeq(q, 1, Len(q) - 1)]

\* rx.recv().await on a channel that holds a frame
rx_recv(q) == [message |-> Head(q), rest |-> Tail(q)]

\* mutant: handlers.iter().rev()
handler_at_rev(hs, i) == hs[Len(hs) + 1 - i]

\* handlers.iter(): the i-th handler the loop invokes
handler_at(hs, i) == hs[i]

\* mutant: connected means the outbound pump is still running
is_connected_while_pumping ==
    client_session # NoZekeSession /\ client_sender /\ senderTask # "ended"

\* pub fn is_connected
is_connected == client_session # NoZekeSession /\ client_sender

\* pub fn get_session
get_session == client_session

WsOk(o) == [op |-> o, kind |-> "ok", err |-> "none"]
WsErr(o, e) == [op |-> o, kind |-> "err", err |-> e]
NoWsRet == [op |-> "none", kind |-> "none", err |-> "none"]

\* No connection was replaced: connect has spawned no task that outlives the
\* connection the client holds.
NoPrev ==
    [senderTask |-> "none", receiverTask |-> "none", chan |-> <<>>, inflight |-> NoFrame,
     idx |-> 0, cur |-> NoFrame, reads |-> 0, wire |-> <<>>, delivered |-> <<>>]

\* WebSocketClient::new()
WebSocketClient_new ==
    /\ client_session = NoZekeSession
    /\ client_sender = FALSE
    /\ message_handlers = <<>>
    /\ chan = <<>>
    /\ rxAlive = FALSE
    /\ inflight = NoFrame
    /\ senderTask = "none"
    /\ receiverTask = "none"
    /\ idx = 0
    /\ arrived = <<>>
    /\ snapshot = <<>>
    /\ delivered = <<>>
    /\ enqueued = <<>>
    /\ wire = <<>>
    /\ wsRet = NoWsRet
    /\ prev = NoPrev

connVars == <<chan, rxAlive, inflight, senderTask, receiverTask, idx, arrived, snapshot,
              delivered, enqueued, wire>>

\* both tasks connect spawned for the connection the client holds have ended
\* (or it never connected)
ConnectionOver ==
    senderTask \in {"none", "ended"} /\ receiverTask \in {"none", "ended"}

\* the tasks of the connection replaced before have ended (or there is none)
PrevOver ==
    prev.senderTask \in {"none", "ended"} /\ prev.receiverTask \in {"none", "ended"}

\* What connect leaves behind when it overwrites self.sender: the two spawned
\* tasks own write, rx, read, a clone of tx and a clone of the handlers Arc, so
\* they go on with what they hold; only the client's own tx is dropped.
replaced ==
    IF ConnectionOver
    THEN NoPrev
    ELSE [senderTask |-> senderTask, receiverTask |-> receiverTask, chan |-> chan,
          inflight |-> inflight, idx |-> idx,
          cur |-> IF receiverTask = "dispatch" THEN arrived[Len(arrived)] ELSE NoFrame,
          reads |-> 0, wire |-> <<>>, delivered |-> <<>>]

\* pub async fn connect(&mut self, session). accepted: connect_async succeeds;
\* authOk: the write of the auth message succeeds. The tasks of at most one
\* replaced connection are followed: connect is called again once they ended.
connect(s, accepted, authOk) ==
    /\ PrevOver
    /\ IF ~accepted
       THEN /\ wsRet' = WsErr("connect", "connect_async")
            /\ UNCHANGED <<client_session, client_sender, connVars, prev>>
       ELSE IF ~authOk
       THEN /\ wsRet' = WsErr("connect", "send")
            /\ UNCHANGED <<client_session, client_sender, connVars, prev>>
       ELSE /\ prev' = replaced
            /\ wire' = <<auth_message(s)>>
            /\ client_session' = s
            /\ client_sender' = TRUE
            /\ chan' = <<>>
            /\ rxAlive' = TRUE
            /\ inflight' = NoFrame
            /\ senderTask' = "recv"
            /\ receiverTask' = "read"
            /\ idx' = 0
            /\ arrived' = <<>>
            /\ snapshot' = <<>>
            /\ delivered' = <<>>
            /\ enqueued' = <<>>
            /\ wsRet' = WsOk("connect")
    /\ UNCHANGED <<message_handlers, nonWsVars>>

\* mutant: the sender is used without looking whether there is one
sender_is_some_unchecked == TRUE

\* if let Some(sender) = &self.sender
sender_is_some == client_sender

\* async fn send_message(&self, message), called by the operation o
send_message(o, message) ==
    /\ sender_is_some /\ sender_send => Len(enqueued) < MaxQueued
    /\ IF sender_is_some
       THEN IF sender_send
            THEN /\ chan' = Append(chan, message)
                 /\ enqueued' = Append(enqueued, message)
                 /\ wsRet' = WsOk(o)
            ELSE /\ wsRet' = WsErr(o, "channel closed")
                 /\ UNCHANGED <<chan, enqueued>>
       ELSE /\ wsRet' = WsErr(o, "WebSocket not connected")
            /\ UNCHANGED <<chan, enqueued>>
    /\ UNCHANGED <<client_session, client_sender, message_handlers, rxAlive, inflight,
                   senderTask, receiverTask, idx, arrived, snapshot, delivered, wire, prev, nonWsVars>>

\* pub async fn send_chat_request
send_chat_request ==
    send_message("send_chat_request", JsonRpcRequest("chat_completion", new_v4))

\* json!({"id": action_id, "response": StreamMessage::ActionResponse { approved, session }})
ActionResponse(action_id, approved, session) ==
    [Frame("Text", "ActionResponse", action_id) EXCEPT !.approved = approved,
                                                       !.session = session]

\* pub async fn send_action_approval
send_action_approval(action_id, approved, session) ==
    send_message("send_action_approval", ActionResponse(action_id, approved, session))

\* pub async fn send_provider_switch
send_provider_switch ==
    send_message("send_provider_switch", JsonRpcRequest("switch_provider", new_v4))

\* pub async fn send_context_update
send_context_update ==
    send_message("send_context_update", JsonRpcRequest("update_context", new_v4))

SendOps ==
    {"send_chat_request", "send_action_approval", "send_provider_switch",
     "send_context_update"}

\* pub async fn add_message_handler: handlers.write().await is granted when no
\* receiver task, of this connection or of the one replaced, holds the read lock
add_message_handler ==
    /\ receiverTask # "dispatch"
    /\ prev.receiverTask # "dispatch"
    /\ Len(message_handlers) < MaxHandlers
    /\ message_handlers' = Append(message_handlers, Len(message_handlers) + 1)
    /\ wsRet' = WsOk("add_message_handler")
    /\ UNCHANGED <<client_session, client_sender, connVars, prev, nonWsVars>>

\* sender task: while let Some(message) = rx.recv().await
SenderRecv ==
    /\ senderTask = "recv"
    /\ chan # <<>>
    /\ inflight' = rx_recv(chan).message
    /\ chan' = rx_recv(chan).rest
    /\ senderTask' = "write"
    /\ wsRet' = NoWsRet
    /\ UNCHANGED <<client_session, client_sender, message_handlers, rxAlive, receiverTask,
                   idx, arrived, snapshot, delivered, enqueued, wire, prev, nonWsVars>>

\* sender task: write.send(message).await; on Err the loop breaks and the task
\* ends, dropping rx and what the channel still holds
SenderWrite(written) ==
    /\ senderTask = "write"
    /\ IF written
       THEN /\ wire' = Append(wire, inflight)
            /\ senderTask' = "recv"
            /\ UNCHANGED <<chan, rxAlive>>
       ELSE /\ senderTask' = "ended"
            /\ rxAlive' = FALSE
            /\ chan' = <<>>
            /\ UNCHANGED wire
    /\ inflight' = NoFrame
    /\ wsRet' = NoWsRet
    /\ UNCHANGED <<client_session, client_sender, message_handlers, receiverTask, idx,
                   arrived, snapshot, delivered, enqueued, prev, nonWsVars>>

\* receiver task: one read.next().await yielding Some(Ok(message)), and the
\* match arm it takes
ReceiverRead(message) ==
    /\ receiverTask = "read"
    /\ Len(arrived) < MaxInbound
    /\ message.kind = "Ping" /\ sender_send => Len(enqueued) < MaxQueued
    /\ arrived' = Append(arrived, message)
    /\ snapshot' = Append(snapshot, message_handlers)
    /\ wsRet' = NoWsRet
    /\ IF message.kind = "Text"
       THEN /\ IF from_str(message).ok /\ message_handlers # <<>>
               THEN receiverTask' = "dispatch" /\ idx' = 1
               ELSE UNCHANGED <<receiverTask, idx>>
            /\ UNCHANGED <<chan, enqueued>>
       ELSE IF message.kind = "Ping"
       THEN /\ IF sender_send
               THEN /\ chan' = Append(chan, Frame("Pong", "", message.n))
                    /\ enqueued' = Append(enqueued, Frame("Pong", "", message.n))
               ELSE UNCHANGED <<chan, enqueued>>
            /\ UNCHANGED <<receiverTask, idx>>
       ELSE IF message.kind = "Close"
       THEN /\ receiverTask' = "ended"
            /\ UNCHANGED <<chan, enqueued, idx>>
       ELSE UNCHANGED <<chan, enqueued, receiverTask, idx>>
    /\ UNCHANGED <<client_session, client_sender, message_handlers, rxAlive, inflight,
                   senderTask, delivered, wire, prev, nonWsVars>>

\* receiver task: read.next().await yields Some(Err(e)), or None at the end of
\* the stream
ReceiverReadEnd ==
    /\ receiverTask = "read"
    /\ receiverTask' = "ended"
    /\ wsRet' = NoWsRet
    /\ UNCHANGED <<client_session, client_sender, message_handlers, chan, rxAlive,
                   inflight, senderTask, idx, arrived, snapshot, delivered, enqueued, wire, prev, nonWsVars>>

\* receiver task: one turn of `for handler in handlers.iter()` under the read
\* lock
Dispatch ==
    /\ receiverTask = "dispatch"
    /\ delivered' = Append(delivered,
                       [handler |-> handler_at(message_handlers, idx),
                        k |-> Len(arrived),
                        msg |-> from_str(arrived[Len(arrived)]).msg])
    /\ IF idx < Len(message_handlers)
       THEN idx' = idx + 1 /\ UNCHANGED receiverTask
       ELSE idx' = 0 /\ receiverTask' = "read"
    /\ wsRet' = NoWsRet
    /\ UNCHANGED <<client_session, client_sender, message_handlers, chan, rxAlive,
                   inflight, senderTask, arrived, snapshot, enqueued, wire, prev, nonWsVars>>

\* ------------------------------------------------- providers/, providers.rs
\* pub enum ProviderType
ProviderType == {"OpenAI", "Claude", "Ollama", "Copilot", "GhostLLM"}

\* The credentials api_keys may hold: a call's api_keys is the set of the keys
\* that are present.
ApiKeyNames == {"openai", "claude", "copilot"}

\* the key new_with_config looks up for a provider; "" where it needs none
required_key(pt) ==
    CASE pt = "OpenAI" -> "openai"
      [] pt = "Claude" -> "claude"
      [] pt = "Copilot" -> "copilot"
      [] OTHER -> ""

\* pub fn new_with_config(provider_type, api_keys, ghostllm_config). built: the
\* provider's constructor returns Ok.
new_with_config(pt, api_keys, built) ==
    IF pt \in {"GhostLLM", "Ollama"}
    THEN IF pt = "Ollama" /\ ~built
         THEN [ok |-> FALSE, err |-> "constructor", current_provider |-> "",
               provider_type |-> ""]
         ELSE [ok |-> TRUE, err |-> "none", current_provider |-> pt, provider_type |-> pt]
    ELSE IF required_key(pt) \notin api_keys
    THEN [ok |-> FALSE, err |-> "key not found", current_provider |-> "",
          provider_type |-> ""]
    ELSE IF ~built
    THEN [ok |-> FALSE, err |-> "constructor", current_provider |-> "",
          provider_type |-> ""]
    ELSE [ok |-> TRUE, err |-> "none", current_provider |-> pt, provider_type |-> pt]

\* mutant: the type is committed before the new provider is built
switch_provider_type_first(pt, api_keys, built) ==
    LET new_manager == new_with_config(pt, api_keys, built)
    IN  [ok |-> new_manager.ok, err |-> new_manager.err,
         current_provider |-> IF new_manager.ok THEN new_manager.current_provider
                              ELSE current_provider,
         provider_type |-> pt]

\* pub async fn switch_provider(&mut self, provider_type, api_keys): the fields
\* of the manager when it returns
switch_provider(pt, api_keys, built) ==
    LET new_manager == new_with_config(pt, api_keys, built)
    IN  IF new_manager.ok
        THEN [ok |-> TRUE, err |-> "none",
              current_provider |-> new_manager.current_provider,
              provider_type |-> new_manager.provider_type]
        ELSE [ok |-> FALSE, err |-> new_manager.err,
              current_provider |-> current_provider,
              provider_type |-> provider_type]

\* providers/mod.rs: pub async fn get_current_model
get_current_model ==
    CASE provider_type = "GhostLLM" -> "auto (GhostLLM)"
      [] provider_type = "OpenAI" -> "gpt-4"
      [] provider_type = "Claude" -> "claude-3-sonnet"
      [] provider_type = "Ollama" -> "llama3:8b"
      [] provider_type = "Copilot" -> "copilot"

\* pub fn get_provider_type
get_provider_type == provider_type

\* providers.rs: the providers ProviderManager::new registers under their
\* names, each reduced to the model its constructor sets
Registered == {"openai", "claude", "copilot", "ollama"}
ProviderNames == Registered \cup {"ghostllm"}
providers ==
    [n \in Registered |->
        CASE n = "openai" -> "gpt-4"
          [] n = "claude" -> "claude-3-5-sonnet-20241022"
          [] n = "copilot" -> "copilot"
          [] n = "ollama" -> "llama2"]

\* providers.rs: pub fn set_provider(&mut self, provider): the field when it
\* returns
set_provider(provider) ==
    IF provider \in DOMAIN providers
    THEN [ok |-> TRUE, current_provider |-> provider]
    ELSE [ok |-> FALSE, current_provider |-> named_provider]

\* providers.rs: pub fn get_current_provider
get_current_provider == named_provider

\* providers.rs: pub async fn get_current_model
named_current_model ==
    IF named_provider \in DOMAIN providers
    THEN providers[named_provider]
    ELSE "unknown"

\* providers/mod.rs: pub fn is_ghostllm_enabled
is_ghostllm_enabled == ghostllm_enabled

\* What a caller can see of the two managers
Observed ==
    [current_provider |-> current_provider, provider_type |-> get_provider_type,
     model |-> get_current_model, named_provider |-> get_current_provider,
     named_model |-> named_current_model]

GwRet(o, kind, err, asked) ==
    [op |-> o, kind |-> kind, err |-> err, asked |-> asked, before |-> Observed,
     requests |-> 0, consents |-> 0, script |-> <<>>, items |-> <<>>, models |-> <<>>,
     text |-> <<>>, sent |-> <<>>, approvals |-> 0, polled |-> 0]
NoGwRet ==
    [op |-> "none", kind |-> "none", err |-> "none", asked |-> "",
     before |-> [current_provider |-> "", provider_type |-> "", model |-> "",
                 named_provider |-> "", named_model |-> ""],
     requests |-> 0, consents |-> 0, script |-> <<>>, items |-> <<>>, models |-> <<>>,
     text |-> <<>>, sent |-> <<>>, approvals |-> 0, polled |-> 0]

\* providers/mod.rs ProviderManager::new() and providers.rs ProviderManager::new()
ProviderManager_new ==
    /\ current_provider = "GhostLLM"
    /\ provider_type = "GhostLLM"
    /\ ghostllm_enabled = TRUE
    /\ named_provider = "openai"
    /\ gwRet = NoGwRet

CallSwitchProvider(pt, api_keys, built) ==
    LET r == switch_provider(pt, api_keys, built)
    IN  /\ current_provider' = r.current_provider
        /\ provider_type' = r.provider_type
        /\ gwRet' = GwRet("switch_provider", IF r.ok THEN "ok" ELSE "err", r.err, pt)
        /\ UNCHANGED <<ghostllm_enabled, named_provider, nonGatewayVars>>

CallSetProvider(provider) ==
    LET r == set_provider(provider)
    IN  /\ named_provider' = r.current_provider
        /\ gwRet' = GwRet("set_provider", IF r.ok THEN "ok" ELSE "err",
                          IF r.ok THEN "none" ELSE "not found", provider)
        /\ UNCHANGED <<current_provider, provider_type, ghostllm_enabled, nonGatewayVars>>

\* --- providers/ghostllm.rs: the consent escalation
\* What the backend answers to POST /v1/chat/completions
BackendResponses ==
    {"200", "200 malformed", "403 consent_required", "403 other", "403 malformed",
     "500", "unreachable"}

RECURSIVE Consents(_)
\* k consent requirements in a row
Consents(k) == IF k = 0 THEN <<>> ELSE <<"403 consent_required">> \o Consents(k - 1)

\* The backend's answers to one call and to its retries: consent is required
\* some number of times, then comes another answer.
Scripts ==
    {Consents(k) \o <<final>> :
        k \in 0..MaxConsent, final \in BackendResponses \ {"403 consent_required"}}

RECURSIVE make_request_retry_anyway(_, _, _, _)
\* mutant: the result of approve_consent is dropped and the request retried
make_request_retry_anyway(script, approvals, requests, consents) ==
    LET response == Head(script)
        Return(kind, err) ==
            [kind |-> kind, err |-> err, requests |-> requests + 1, consents |-> consents]
    IN  CASE response = "unreachable" -> Return("err", "send")
          [] response = "200" -> Return("ok", "none")
          [] response = "200 malformed" -> Return("err", "json")
          [] response = "403 malformed" -> Return("err", "json")
          [] response = "403 other" -> Return("err", "GhostLLM error")
          [] response = "403 consent_required" ->
                make_request_retry_anyway(Tail(script),
                    IF approvals = 0 THEN 0 ELSE approvals - 1, requests + 1, consents + 1)
          [] OTHER -> Return("err", "GhostLLM API error")

RECURSIVE make_request(_, _, _, _)
\* async fn make_request(&self, request). script: what the backend answers from
\* here on; approvals: how many calls of approve_consent will still succeed;
\* requests, consents: the posts to /v1/chat/completions and to /admin/consent
\* made so far.
make_request(script, approvals, requests, consents) ==
    LET response == Head(script)
        Return(kind, err) ==
            [kind |-> kind, err |-> err, requests |-> requests + 1, consents |-> consents]
    IN  CASE response = "unreachable" -> Return("err", "send")
          [] response = "200" -> Return("ok", "none")
          [] response = "200 malformed" -> Return("err", "json")
          [] response = "403 malformed" -> Return("err", "json")
          [] response = "403 other" -> Return("err", "GhostLLM error")
          [] response = "403 consent_required" ->
                IF approvals = 0
                THEN [kind |-> "err", err |-> "Failed to approve consent",
                      requests |-> requests + 1, consents |-> consents + 1]
                ELSE make_request(Tail(script), approvals - 1, requests + 1, consents + 1)
          [] OTHER -> Return("err", "GhostLLM API error")

\* GhostLLMProvider::chat, reached through ProviderManager::chat while the
\* routed provider is the active one
CallChat(script, approvals) ==
    /\ current_provider = "GhostLLM"
    /\ LET r == make_request(script, approvals, 0, 0)
       IN  gwRet' = [GwRet("chat", r.kind, r.err, "") EXCEPT
                        !.requests = r.requests, !.consents = r.consents,
                        !.script = script, !.approvals = approvals]
    /\ UNCHANGED <<current_provider, provider_type, ghostllm_enabled, named_provider, nonGatewayVars>>

\* --- streaming
\* What response.bytes_stream() yields: a chunk holding a "data: " line with
\* content, one holding "data: [DONE]", one holding a "data: " line that is no
\* JSON of the expected shape, or a transport error.
Chunks == {"delta", "done", "junk", "error"}

RECURSIVE SeqsUpTo(_, _)
SeqsUpTo(S, n) ==
    IF n = 0 THEN {<<>>}
    ELSE LET shorter == SeqsUpTo(S, n - 1)
         IN  shorter \cup {Append(s, x) : s \in {t \in shorter : Len(t) = n - 1}, x \in S}

ChunkScripts == SeqsUpTo(Chunks, MaxChunks)

ItemOk(text) == [ok |-> TRUE, text |-> text]
ItemErr(e) == [ok |-> FALSE, text |-> e]

\* the closure each provider's chat_stream maps over the chunks
stream_item(pt, chunk) ==
    IF chunk = "error" THEN ItemErr("Stream error")
    ELSE IF chunk = "delta" THEN ItemOk("content")
    ELSE CASE pt = "OpenAI" ->
                IF chunk = "done" THEN ItemOk("") ELSE ItemErr("JSON parse error")
           [] pt = "Claude" -> ItemErr("JSON parse error")
           [] OTHER -> ItemOk("")

stream_items(pt, chunks) == [i \in 1..Len(chunks) |-> stream_item(pt, chunks[i])]

\* mutant: the completion endpoint is asked like any other backend
copilot_chat_stream_request(started, chunks) ==
    IF started
    THEN [ok |-> TRUE, err |-> "none", requests |-> 1,
          items |-> stream_items("Copilot", chunks)]
    ELSE [ok |-> FALSE, err |-> "Failed to start stream", requests |-> 1, items |-> <<>>]

\* providers/copilot.rs: async fn chat_stream
copilot_chat_stream(started, chunks) ==
    [ok |-> FALSE, err |-> "Streaming not supported for Copilot provider",
     requests |-> 0, items |-> <<>>]

\* chat_stream of the provider pt. started: the backend answers the request
\* with a success status.
chat_stream(pt, started, chunks) ==
    IF pt = "Copilot"
    THEN copilot_chat_stream(started, chunks)
    ELSE IF started
    THEN [ok |-> TRUE, err |-> "none", requests |-> 1, items |-> stream_items(pt, chunks)]
    ELSE [ok |-> FALSE, err |-> "Failed to start stream", requests |-> 1, items |-> <<>>]

\* providers/mod.rs: pub async fn chat_stream
CallChatStream(started, chunks) ==
    /\ LET r == chat_stream(current_provider, started, chunks)
       IN  gwRet' = [GwRet("chat_stream", IF r.ok THEN "ok" ELSE "err", r.err, "") EXCEPT
                        !.requests = r.requests, !.items = r.items, !.script = chunks]
    /\ UNCHANGED <<current_provider, provider_type, ghostllm_enabled, named_provider, nonGatewayVars>>

RECURSIVE handle_stream_continue(_, _, _)
\* mutant: an Err item is logged and the loop goes on with the next item
handle_stream_continue(stream, full_response, sent) ==
    IF stream = <<>>
    THEN [ok |-> TRUE, text |-> full_response, sent |-> sent, rest |-> <<>>]
    ELSE LET chunk == Head(stream)
         IN  IF chunk.ok
             THEN handle_stream_continue(Tail(stream),
                                         IF chunk.text = "" THEN full_response
                                         ELSE Append(full_response, chunk.text),
                                         Append(sent, chunk.text))
             ELSE handle_stream_continue(Tail(stream), full_response, sent)

RECURSIVE handle_stream(_, _, _)
\* streaming.rs: pub async fn handle_stream(&self, stream). full_response: the
\* texts pushed so far; sent: the texts given to self.sender so far, which
\* next_chunk receives in this order; rest: the items stream.next() was not
\* asked for.
handle_stream(stream, full_response, sent) ==
    IF stream = <<>>
    THEN [ok |-> TRUE, text |-> full_response, sent |-> sent, rest |-> <<>>]
    ELSE LET chunk == Head(stream)
         IN  IF chunk.ok
             THEN handle_stream(Tail(stream),
                                IF chunk.text = "" THEN full_response
                                ELSE Append(full_response, chunk.text),
                                Append(sent, chunk.text))
             ELSE [ok |-> TRUE, text |-> full_response, sent |-> sent, rest |-> Tail(stream)]

\* a consumer opens a stream on the active provider and gives it to
\* StreamHandler::handle_stream
CallHandleStream(chunks) ==
    /\ current_provider # "Copilot"
    /\ LET stream == chat_stream(current_provider, TRUE, chunks).items
           r == handle_stream(stream, <<>>, <<>>)
       IN  gwRet' = [GwRet("handle_stream", IF r.ok THEN "ok" ELSE "err", "none", "") EXCEPT
                        !.requests = 1, !.items = stream, !.script = chunks,
                        !.text = r.text, !.sent = r.sent,
                        !.polled = Len(stream) - Len(r.rest)]
    /\ UNCHANGED <<current_provider, provider_type, ghostllm_enabled, named_provider, nonGatewayVars>>

\* --- list_models
\* How the query of the backend's registry ends
QueryOutcomes == {"unreachable", "status", "malformed", "listed"}
\* What the registry lists when the query succeeds
Registries == {<<>>, <<"llama3:8b">>}

OllamaFallback ==
    <<"llama2", "llama2:13b", "llama2:70b", "codellama", "codellama:13b", "codellama:34b",
      "mistral", "mixtral", "qwen", "dolphin-mixtral">>
GhostLLMStatusFallback ==
    <<"auto", "claude-3-sonnet", "gpt-4", "gpt-3.5-turbo", "llama3:8b",
      "deepseek-coder:6.7b">>
GhostLLMFallback == <<"auto", "claude-3-sonnet", "gpt-4">>

\* mutant: Result::unwrap_or_default
unwrap_or_default(r, fallback) == IF r.ok THEN r.models ELSE <<>>

\* Result::unwrap_or_else(|_| fallback)
unwrap_or_else(r, fallback) == IF r.ok THEN r.models ELSE fallback

\* providers/ollama.rs: async fn list_local_models
list_local_models(outcome, registry) ==
    IF outcome = "listed"
    THEN [ok |-> TRUE, models |-> registry]
    ELSE [ok |-> FALSE, models |-> <<>>]

\* providers/ghostllm.rs: pub async fn list_models (the inherent one)
ghostllm_list_models(outcome, registry) ==
    CASE outcome = "listed" -> [ok |-> TRUE, models |-> registry]
      [] outcome = "status" -> [ok |-> TRUE, models |-> GhostLLMStatusFallback]
      [] OTHER -> [ok |-> FALSE, models |-> <<>>]

\* Provider::list_models of the provider pt
list_models(pt, outcome, registry) ==
    CASE pt = "Ollama" -> unwrap_or_else(list_local_models(outcome, registry), OllamaFallback)
      [] pt = "GhostLLM" ->
            unwrap_or_else(ghostllm_list_models(outcome, registry), GhostLLMFallback)
      [] pt = "Copilot" -> <<"copilot">>
      [] pt = "OpenAI" -> <<"gpt-4", "gpt-4-turbo", "gpt-3.5-turbo", "gpt-3.5-turbo-16k">>
      [] pt = "Claude" ->
            <<"claude-3-5-sonnet-20241022", "claude-3-5-haiku-20241022",
              "claude-3-opus-20240229", "claude-3-sonnet-20240229",
              "claude-3-haiku-20240307">>

\* providers/mod.rs: pub async fn list_models
CallListModels(outcome, registry) ==
    /\ gwRet' = [GwRet("list_models", "ok", "none", outcome) EXCEPT
                    !.models = list_models(current_provider, outcome, registry)]
    /\ UNCHANGED <<current_provider, provider_type, ghostllm_enabled, named_provider, nonGatewayVars>>

\* ------------------------------------------------- terminal.rs, lib.rs
\* The tasks of the runtime that call into ZekeState and TaskManager
Callers == {1, 2}

\* The three tokio RwLocks: ZekeState.provider_manager, TaskManager.tasks and
\* TaskManager.next_id
Locks == {"provider_manager", "tasks", "next_id"}

\* pub enum TaskStatus, as far as the callers set it
Statuses == {"Running", "Completed"}

Idle == [pc |-> "idle", id |-> 0, status |-> ""]

\* mutant: a read guard is handed out whoever holds the lock
read_granted_always(l) == TRUE

\* RwLock::read().await returns: nobody holds the write guard
read_granted(l) == locks[l].writers = {}

\* mutant: a write guard is handed out whoever holds the lock
write_granted_always(l) == TRUE

\* RwLock::write().await returns: nobody holds a guard
write_granted(l) == locks[l].writers = {} /\ locks[l].readers = {}

with_reader(l, t) == [locks EXCEPT ![l].readers = @ \cup {t}]
with_writer(l, t) == [locks EXCEPT ![l].writers = @ \cup {t}]
\* the guards of t on the locks of ls are dropped
dropped(ls, t) ==
    [l \in Locks |->
        IF l \in ls
        THEN [readers |-> locks[l].readers \ {t}, writers |-> locks[l].writers \ {t}]
        ELSE locks[l]]

\* TaskManager::new() and the locks of ZekeState
TaskManager_new ==
    /\ locks = [l \in Locks |-> [readers |-> {}, writers |-> {}]]
    /\ tasks = <<>>
    /\ next_id = 1
    /\ local = [t \in Callers |-> Idle]
    /\ created = <<>>

At(t, where) == local[t].pc = where
Goto(t, where) == local' = [local EXCEPT ![t].pc = where]

\* lib.rs chat, list_models (and the other readers): provider_manager.read().await
ReadProviderAcquire(t, o) ==
    /\ At(t, "idle")
    /\ read_granted("provider_manager")
    /\ locks' = with_reader("provider_manager", t)
    /\ Goto(t, o)
    /\ UNCHANGED <<tasks, next_id, created, nonTaskVars>>

\* the provider's call returns and the read guard is dropped
ReadProviderRelease(t) ==
    /\ At(t, "chat") \/ At(t, "list_models")
    /\ locks' = dropped({"provider_manager"}, t)
    /\ local' = [local EXCEPT ![t] = Idle]
    /\ UNCHANGED <<tasks, next_id, created, nonTaskVars>>

\* lib.rs set_model: provider_manager.write().await
SetModelAcquire(t) ==
    /\ At(t, "idle")
    /\ write_granted("provider_manager")
    /\ locks' = with_writer("provider_manager", t)
    /\ Goto(t, "set_model")
    /\ UNCHANGED <<tasks, next_id, created, nonTaskVars>>

\* provider.set_model(&model) returns (providers/mod.rs: Ok(()) and nothing
\* else) and the write guard is dropped
SetModelRelease(t) ==
    /\ At(t, "set_model")
    /\ locks' = dropped({"provider_manager"}, t)
    /\ local' = [local EXCEPT ![t] = Idle]
    /\ UNCHANGED <<tasks, next_id, created, nonTaskVars>>

\* create_task: let mut next_id = self.next_id.write().await
CreateAcquire(t) ==
    /\ At(t, "idle")
    /\ next_id <= MaxTasks
    /\ write_granted("next_id")
    /\ locks' = with_writer("next_id", t)
    /\ Goto(t, "create: take")
    /\ UNCHANGED <<tasks, next_id, created, nonTaskVars>>

\* create_task: let id = *next_id
CreateTake(t) ==
    /\ At(t, "create: take")
    /\ local' = [local EXCEPT ![t].pc = "create: bump", ![t].id = next_id]
    /\ UNCHANGED <<locks, tasks, next_id, created, nonTaskVars>>

\* create_task: *next_id += 1
CreateBump(t) ==
    /\ At(t, "create: bump")
    /\ next_id' = next_id + 1
    /\ Goto(t, "create: tasks")
    /\ UNCHANGED <<locks, tasks, created, nonTaskVars>>

\* create_task: let mut tasks = self.tasks.write().await, with the guard of
\* next_id still held
CreateTasksAcquire(t) ==
    /\ At(t, "create: tasks")
    /\ write_granted("tasks")
    /\ locks' = with_writer("tasks", t)
    /\ Goto(t, "create: insert")
    /\ UNCHANGED <<tasks, next_id, created, nonTaskVars>>

\* The Task create_task builds; command, which nothing reads, is left out.
Task(id) == [id |-> id, status |-> "Pending", output |-> <<>>, error |-> "none"]

\* HashMap::insert(id, task): the entry of that key is set
insert(ts, id, task) ==
    [k \in DOMAIN ts \cup {id} |-> IF k = id THEN task ELSE ts[k]]

\* create_task: tasks.insert(id, task); id is returned and both guards are
\* dropped
CreateInsert(t) ==
    /\ At(t, "create: insert")
    /\ tasks' = insert(tasks, local[t].id, Task(local[t].id))
    /\ created' = Append(created, local[t].id)
    /\ locks' = dropped({"next_id", "tasks"}, t)
    /\ local' = [local EXCEPT ![t] = Idle]
    /\ UNCHANGED <<next_id, nonTaskVars>>

\* update_task_status(id, status): self.tasks.write().await
UpdateAcquire(t, id, status) ==
    /\ At(t, "idle")
    /\ write_granted("tasks")
    /\ locks' = with_writer("tasks", t)
    /\ local' = [local EXCEPT ![t] = [pc |-> "update_task_status", id |-> id,
                                      status |-> status]]
    /\ UNCHANGED <<tasks, next_id, created, nonTaskVars>>

\* update_task_status: task.status = status if the task is there, Err if not;
\* the guard is dropped
UpdateApply(t) ==
    /\ At(t, "update_task_status")
    /\ tasks' = IF local[t].id \in DOMAIN tasks
                THEN [tasks EXCEPT ![local[t].id].status = local[t].status]
                ELSE tasks
    /\ locks' = dropped({"tasks"}, t)
    /\ local' = [local EXCEPT ![t] = Idle]
    /\ UNCHANGED <<next_id, created, nonTaskVars>>

\* get_task(id): self.tasks.read().await
GetAcquire(t, id) ==
    /\ At(t, "idle")
    /\ read_granted("tasks")
    /\ locks' = with_reader("tasks", t)
    /\ local' = [local EXCEPT ![t] = [pc |-> "get_task", id |-> id, status |-> ""]]
    /\ UNCHANGED <<tasks, next_id, created, nonTaskVars>>

\* get_task: tasks.get(&id).cloned() is returned and the guard is dropped
GetRelease(t) ==
    /\ At(t, "get_task")
    /\ locks' = dropped({"tasks"}, t)
    /\ local' = [local EXCEPT ![t] = Idle]
    /\ UNCHANGED <<tasks, next_id, created, nonTaskVars>>

\* clean_completed_tasks: self.tasks.write().await
CleanAcquire(t) ==
    /\ At(t, "idle")
    /\ write_granted("tasks")
    /\ locks' = with_writer("tasks", t)
    /\ Goto(t, "clean_completed_tasks")
    /\ UNCHANGED <<tasks, next_id, created, nonTaskVars>>

\* tasks.retain(|_, task| status is neither Completed nor Cancelled)
retain(ts) ==
    [k \in {j \in DOMAIN ts : ts[j].status \notin {"Completed", "Cancelled"}} |-> ts[k]]

\* clean_completed_tasks: the retain, and the guard is dropped
CleanApply(t) ==
    /\ At(t, "clean_completed_tasks")
    /\ tasks' = retain(tasks)
    /\ locks' = dropped({"tasks"}, t)
    /\ local' = [local EXCEPT ![t] = Idle]
    /\ UNCHANGED <<next_id, created, nonTaskVars>>

\* ------------------------------------------------- terminal.rs, Terminal
\* Each method of TaskManager below holds the write guard of the task map from
\* its first statement to its last, so that it is one step for everybody else.

\* What the sh -c subprocess of a task comes to: it cannot be spawned, it
\* exits with success, or it exits with a failure status
Outcomes == {"spawn error", "success", "failure"}

\* TaskManager::update_task_status(id, status)
update_task_status(ts, id, status) ==
    IF id \in DOMAIN ts
    THEN [ok |-> TRUE, tasks |-> [ts EXCEPT ![id].status = status]]
    ELSE [ok |-> FALSE, tasks |-> ts]

\* TaskManager::append_output(id, output): task.output.push_str(output)
append_output(ts, id, output) ==
    IF id \in DOMAIN ts
    THEN [ok |-> TRUE, tasks |-> [ts EXCEPT ![id].output = @ \o output]]
    ELSE [ok |-> FALSE, tasks |-> ts]

\* TaskManager::set_error(id, error)
set_error(ts, id, error) ==
    IF id \in DOMAIN ts
    THEN [ok |-> TRUE, tasks |-> [ts EXCEPT ![id].error = error, ![id].status = "Failed"]]
    ELSE [ok |-> FALSE, tasks |-> ts]

\* TaskManager::cancel_task(id)
cancel_task(ts, id) == update_task_status(ts, id, "Cancelled")

\* TaskManager::cancel_all_tasks
cancel_all_tasks(ts) ==
    [k \in DOMAIN ts |->
        IF ts[k].status \in {"Running", "Pending"}
        THEN [ts[k] EXCEPT !.status = "Cancelled"]
        ELSE ts[k]]

\* The executor of a task: the body of execute_command, or the future
\* execute_command_async spawns. spawned: tokio::spawn was used; outcome: what
\* the subprocess came to, once it is known; ret: what execute_command returned.
Executor(spawned) == [spawned |-> spawned, pc |-> "running", outcome |-> "", ret |-> ""]

Terminal_new == execs = <<>>

\* The executor of task id has become `e`.
Becomes(id, e) == execs' = [execs EXCEPT ![id] = e]
\* The executor of task id ends; a spawned one returns nothing to anybody.
Ends(id, result) ==
    Becomes(id, [execs[id] EXCEPT !.pc = "done",
                                  !.ret = IF execs[id].spawned THEN "" ELSE result])

\* execute_command and execute_command_async up to the end of create_task; the
\* second returns task_id as soon as its executor is spawned.
Execute(spawned) ==
    /\ next_id <= MaxExecs
    /\ tasks' = insert(tasks, next_id, Task(next_id))
    /\ next_id' = next_id + 1
    /\ created' = Append(created, next_id)
    /\ execs' = [k \in DOMAIN execs \cup {next_id} |->
                    IF k = next_id THEN Executor(spawned) ELSE execs[k]]
    /\ UNCHANGED <<locks, local, nonExecVars>>

\* update_task_status(task_id, Running): `?` in execute_command, `let _ =` in
\* the spawned executor
ExecRunning(id) ==
    /\ id \in DOMAIN execs
    /\ execs[id].pc = "running"
    /\ LET r == update_task_status(tasks, id, "Running")
       IN  /\ tasks' = r.tasks
           /\ IF r.ok \/ execs[id].spawned
              THEN Becomes(id, [execs[id] EXCEPT !.pc = "output"])
              ELSE Ends(id, "Err: task not found")
    /\ UNCHANGED <<locks, next_id, local, created, nonExecVars>>

\* Command::new("sh").arg("-c").arg(&command).output().await: `?` in
\* execute_command, a match in the spawned executor
ExecOutput(id, outcome) ==
    /\ id \in DOMAIN execs
    /\ execs[id].pc = "output"
    /\ IF outcome = "spawn error" /\ ~execs[id].spawned
       THEN Ends(id, "Err: spawn")
       ELSE Becomes(id, [execs[id] EXCEPT
                            !.outcome = outcome,
                            !.pc = IF outcome = "success" THEN "append_output"
                                   ELSE "set_error"])
    /\ UNCHANGED <<taskVars, nonExecVars>>

\* append_output(task_id, &stdout)
ExecAppend(id) ==
    /\ id \in DOMAIN execs
    /\ execs[id].pc = "append_output"
    /\ LET r == append_output(tasks, id, <<"stdout">>)
       IN  /\ tasks' = r.tasks
           /\ IF r.ok \/ execs[id].spawned
              THEN Becomes(id, [execs[id] EXCEPT !.pc = "completed"])
              ELSE Ends(id, "Err: task not found")
    /\ UNCHANGED <<locks, next_id, local, created, nonExecVars>>

\* update_task_status(task_id, Completed), and Ok(stdout) in execute_command
ExecCompleted(id) ==
    /\ id \in DOMAIN execs
    /\ execs[id].pc = "completed"
    /\ LET r == update_task_status(tasks, id, "Completed")
       IN  /\ tasks' = r.tasks
           /\ Ends(id, IF r.ok THEN "Ok" ELSE "Err: task not found")
    /\ UNCHANGED <<locks, next_id, local, created, nonExecVars>>

\* set_error(task_id, stderr), or set_error(task_id, e.to_string()) when the
\* subprocess could not be spawned; Err("Command failed") in execute_command
ExecSetError(id) ==
    /\ id \in DOMAIN execs
    /\ execs[id].pc = "set_error"
    /\ LET r == set_error(tasks, id, IF execs[id].outcome = "failure" THEN "stderr"
                                     ELSE "spawn error")
       IN  /\ tasks' = r.tasks
           /\ Ends(id, IF r.ok THEN "Err: command failed" ELSE "Err: task not found")
    /\ UNCHANGED <<locks, next_id, local, created, nonExecVars>>

\* pub async fn cancel_task(id)
CallCancelTask(id) ==
    /\ tasks' = cancel_task(tasks, id).tasks
    /\ UNCHANGED <<locks, next_id, local, created, execVars, nonExecVars>>

\* pub async fn cancel_all_tasks
CallCancelAll ==
    /\ tasks' = cancel_all_tasks(tasks)
    /\ UNCHANGED <<locks, next_id, local, created, execVars, nonExecVars>>

\* pub async fn clean_completed_tasks
CallClean ==
    /\ tasks' = retain(tasks)
    /\ UNCHANGED <<locks, next_id, local, created, execVars, nonExecVars>>

\* ------------------------------------------------- streaming.rs, StreamBuffer
\* The chunks a caller pushes: strings, as the sequences of their characters
ChunkTexts == {<<"a">>, <<"b", "c">>}

\* Vec<String>::join("")
RECURSIVE join(_)
join(v) == IF v = <<>> THEN <<>> ELSE Head(v) \o join(Tail(v))

\* Vec::remove(index), index counted from 0: panics when index is out of
\* bounds, and otherwise takes the element out and shifts the later ones left
vec_remove(v, index) ==
    IF index >= Len(v)
    THEN [panic |-> TRUE, vec |-> v]
    ELSE [panic |-> FALSE,
          vec |-> SubSeq(v, 1, index) \o SubSeq(v, index + 2, Len(v))]

\* pub fn get_content
get_content == join(buffer)

NoSbRet == [op |-> "none", kind |-> "none"]

\* No StreamBuffer has been constructed yet.
StreamBuffer_none ==
    /\ constructed = FALSE
    /\ capacity = 0
    /\ buffer = <<>>
    /\ pushes = <<>>
    /\ sbRet = NoSbRet

\* pub fn new(capacity)
StreamBuffer_new(cap) ==
    /\ constructed' = TRUE
    /\ capacity' = cap
    /\ buffer' = <<>>
    /\ pushes' = <<>>
    /\ sbRet' = [op |-> "new", kind |-> "ok"]
    /\ UNCHANGED nonBufferVars

\* pub fn push(&mut self, chunk). A panic of Vec::remove unwinds out of push
\* before self.buffer.push is reached.
push(chunk) ==
    /\ constructed
    /\ Len(pushes) < MaxPushes
    /\ LET evicted == IF Len(buffer) >= capacity
                      THEN vec_remove(buffer, 0)
                      ELSE [panic |-> FALSE, vec |-> buffer]
       IN  IF evicted.panic
           THEN /\ sbRet' = [op |-> "push", kind |-> "panic"]
                /\ UNCHANGED <<buffer, pushes>>
           ELSE /\ buffer' = Append(evicted.vec, chunk)
                /\ pushes' = Append(pushes, chunk)
                /\ sbRet' = [op |-> "push", kind |-> "ok"]
    /\ UNCHANGED <<constructed, capacity, nonBufferVars>>

\* pub fn clear
clear ==
    /\ constructed
    /\ buffer' = <<>>
    /\ pushes' = <<>>
    /\ sbRet' = [op |-> "clear", kind |-> "ok"]
    /\ UNCHANGED <<constructed, capacity, nonBufferVars>>

\* sender task of the replaced connection: rx.recv().await yields a frame that
\* was enqueued before the client dropped its tx, or a Pong of its receiver task
PrevSenderRecv ==
    /\ prev.senderTask = "recv"
    /\ prev.chan # <<>>
    /\ prev' = [prev EXCEPT !.inflight = rx_recv(prev.chan).message,
                            !.chan = rx_recv(prev.chan).rest,
                            !.senderTask = "write"]
    /\ wsRet' = NoWsRet
    /\ UNCHANGED <<client_session, client_sender, message_handlers, connVars, nonWsVars>>

\* sender task of the replaced connection: write.send(message).await on the
\* transport it still owns
PrevSenderWrite(written) ==
    /\ prev.senderTask = "write"
    /\ prev' = IF written
               THEN [prev EXCEPT !.wire = Append(prev.wire, prev.inflight),
                                 !.inflight = NoFrame,
                                 !.senderTask = "recv"]
               ELSE [prev EXCEPT !.inflight = NoFrame,
                                 !.chan = <<>>,
                                 !.senderTask = "ended"]
    /\ wsRet' = NoWsRet
    /\ UNCHANGED <<client_session, client_sender, message_handlers, connVars, nonWsVars>>

\* sender task of the replaced connection: rx.recv().await yields None once the
\* channel is empty and its receiver task, the last holder of a tx, has ended
PrevSenderEnd ==
    /\ prev.senderTask = "recv"
    /\ prev.chan = <<>>
    /\ prev.receiverTask = "ended"
    /\ prev' = [prev EXCEPT !.senderTask = "ended"]
    /\ wsRet' = NoWsRet
    /\ UNCHANGED <<client_session, client_sender, message_handlers, connVars, nonWsVars>>

\* receiver task of the replaced connection: one read.next().await yielding
\* Some(Ok(message)) on the transport it still owns, and the match arm it takes
PrevReceiverRead(message) ==
    /\ prev.receiverTask = "read"
    /\ prev.reads < MaxInbound
    /\ prev' =
        IF message.kind = "Text"
        THEN IF from_str(message).ok /\ message_handlers # <<>>
             THEN [prev EXCEPT !.reads = prev.reads + 1, !.receiverTask = "dispatch",
                               !.idx = 1, !.cur = message]
             ELSE [prev EXCEPT !.reads = prev.reads + 1]
        ELSE IF message.kind = "Ping"
        THEN IF prev.senderTask \in {"recv", "write"}
             THEN [prev EXCEPT !.reads = prev.reads + 1,
                               !.chan = Append(prev.chan, Frame("Pong", "", message.n))]
             ELSE [prev EXCEPT !.reads = prev.reads + 1]
        ELSE IF message.kind = "Close"
        THEN [prev EXCEPT !.reads = prev.reads + 1, !.receiverTask = "ended"]
        ELSE [prev EXCEPT !.reads = prev.reads + 1]
    /\ wsRet' = NoWsRet
    /\ UNCHANGED <<client_session, client_sender, message_handlers, connVars, nonWsVars>>

\* receiver task of the replaced connection: read.next().await yields
\* Some(Err(e)), or None at the end of the stream
PrevReceiverReadEnd ==
    /\ prev.receiverTask = "read"
    /\ prev' = [prev EXCEPT !.receiverTask = "ended"]
    /\ wsRet' = NoWsRet
    /\ UNCHANGED <<client_session, client_sender, message_handlers, connVars, nonWsVars>>

\* receiver task of the replaced connection: one turn of
\* `for handler in handlers.iter()` over the client's handlers, which it
\* reaches through its clone of the Arc
PrevDispatch ==
    /\ prev.receiverTask = "dispatch"
    /\ prev' = [prev EXCEPT
                   !.delivered = Append(prev.delivered,
                                     [handler |-> handler_at(message_handlers, prev.idx),
                                      msg |-> from_str(prev.cur).msg]),
                   !.idx = IF prev.idx < Len(message_handlers) THEN prev.idx + 1 ELSE 0,
                   !.cur = IF prev.idx < Len(message_handlers) THEN prev.cur ELSE NoFrame,
                   !.receiverTask = IF prev.idx < Len(message_handlers)
                                    THEN "dispatch" ELSE "read"]
    /\ wsRet' = NoWsRet
    /\ UNCHANGED <<client_session, client_sender, message_handlers, connVars, nonWsVars>>

\* ------------------------------------- discovery.rs, two clients, one directory
\* Two ZekeDiscovery instances (two editors) share session_dir. Each of their
\* operations is a sequence of file system calls, and the calls of the two
\* interleave. Companions move between the operations; what a companion does
\* while one operation runs is in Spec.
Instances == {1, 2}

Resting ==
    [pc |-> "idle", op |-> "none", entries |-> <<>>, pairs |-> <<>>, cur |-> NoSession,
     acc |-> <<>>, verified |-> {}, cleaned |-> 0, start |-> NoFiles, alone |-> TRUE,
     kind |-> "none", err |-> "none"]

Quiet == \A c \in Instances : cl[c].pc = "idle"

\* Instance c goes on as `me`; the other instance, if it is inside an
\* operation, is no longer alone with the directory.
Moves(c, me) ==
    cl' = [d \in Instances |->
              IF d = c THEN me
              ELSE IF cl[d].pc = "idle" THEN cl[d]
              ELSE [cl[d] EXCEPT !.alone = FALSE]]

Entering(o) == [Resting EXCEPT !.op = o, !.start = files]

\* A lock record copied under the name of another session's lock file.
LockCopy(p, q) ==
    /\ p # q
    /\ parse_lock_file(files[LockName(p)]).ok
    /\ files[LockName(q)] = Absent
    /\ files' = [files EXCEPT ![LockName(q)] = files[LockName(p)]]
    /\ Forget
    /\ UNCHANGED <<envVars, dirExists, pc, op, elapsed>>

\* discover_sessions up to its loop: exists(), then read_dir, which yields the
\* entries in `order`
DiscoverBegin(c, order) ==
    /\ cl[c].pc = "idle"
    /\ Moves(c, IF ~dirExists
                THEN [Entering("discover_sessions") EXCEPT !.pc = "returned", !.kind = "ok"]
                ELSE [Entering("discover_sessions") EXCEPT !.pc = "next_entry",
                                                           !.entries = order])
    /\ UNCHANGED <<vars, nonRaceVars>>

\* dir.next_entry(), ends_with(".lock") and parse_lock_file of the entry; after
\* the last entry the sort and the return
DiscoverNext(c) ==
    /\ cl[c].pc = "next_entry"
    /\ LET me == cl[c]
           name == Head(me.entries)
           parsed == parse_lock_file(files[name])
       IN IF me.entries = <<>>
          THEN Moves(c, [me EXCEPT !.pc = "returned", !.kind = "ok",
                                   !.acc = sort_newest_first(me.acc)])
          ELSE IF ends_with_lock(name) /\ parsed.ok
          THEN Moves(c, [me EXCEPT !.pc = "is_session_active", !.cur = parsed.session])
          ELSE Moves(c, [me EXCEPT !.entries = Tail(me.entries)])
    /\ UNCHANGED <<vars, nonRaceVars>>

\* is_session_active of the session just parsed, then sessions.push or
\* `let _ = fs::remove_file(&entry.path())`
DiscoverVerify(c) ==
    /\ cl[c].pc = "is_session_active"
    /\ LET me == cl[c]
           on == [me EXCEPT !.pc = "next_entry", !.cur = NoSession,
                            !.entries = Tail(me.entries)]
       IN IF is_session_active(me.cur)
          THEN /\ Moves(c, [on EXCEPT !.acc = Append(me.acc, me.cur),
                                      !.verified = me.verified \cup {me.cur}])
               /\ UNCHANGED files
          ELSE /\ Moves(c, on)
               /\ files' = fs_remove_file(files, Head(me.entries)).files
    /\ UNCHANGED <<envVars, clientVars, nonRaceVars>>

\* cleanup_stale_sessions: `let sessions = self.list_all_sessions().await?`
CleanupBegin(c, order) ==
    /\ cl[c].pc = "idle"
    /\ Moves(c, [Entering("cleanup_stale_sessions") EXCEPT
                    !.pc = "cleanup: exists",
                    !.pairs = list_all_sessions(order).sessions])
    /\ UNCHANGED <<vars, nonRaceVars>>

\* The for loop of cleanup_stale_sessions up to `if lock_file.exists()`, where
\* lock_file is session_dir/<session_id>.lock; after the last pair Ok(cleaned).
CleanupExists(c) ==
    /\ cl[c].pc = "cleanup: exists"
    /\ LET me == cl[c]
           pair == Head(me.pairs)
       IN IF me.pairs = <<>>
          THEN Moves(c, [me EXCEPT !.pc = "returned", !.kind = "ok"])
          ELSE IF ~pair.active /\ files[stop_lock_file(pair.session)] # Absent
          THEN Moves(c, [me EXCEPT !.pc = "cleanup: remove_file"])
          ELSE Moves(c, [me EXCEPT !.pairs = Tail(me.pairs)])
    /\ UNCHANGED <<vars, nonRaceVars>>

\* fs::remove_file(lock_file).await?; cleaned += 1
CleanupRemove(c) ==
    /\ cl[c].pc = "cleanup: remove_file"
    /\ LET me == cl[c]
           removal == fs_remove_file(files, stop_lock_file(Head(me.pairs).session))
       IN /\ files' = removal.files
          /\ IF removal.ok
             THEN Moves(c, [me EXCEPT !.pc = "cleanup: exists", !.pairs = Tail(me.pairs),
                                      !.cleaned = me.cleaned + 1])
             ELSE Moves(c, [me EXCEPT !.pc = "returned", !.kind = "err",
                                      !.err = "remove_file"])
    /\ UNCHANGED <<envVars, clientVars, nonRaceVars>>

\* stop_session up to its clean-up: send_shutdown_signal, and
\* force_kill_session when that failed
StopBegin(c, session, sendOk, dies) ==
    /\ cl[c].pc = "idle"
    /\ session \in Held
    /\ IF needs_force_kill(send_shutdown_signal(session, sendOk)) /\ dies
          /\ Running(session.pid)
       THEN Dies(session.pid)
       ELSE UNCHANGED envVars
    /\ Moves(c, [Entering("stop_session") EXCEPT !.pc = "stop: exists", !.cur = session])
    /\ UNCHANGED <<files, clientVars, nonRaceVars>>

\* if lock_file.exists()
StopExists(c) ==
    /\ cl[c].pc = "stop: exists"
    /\ LET me == cl[c]
       IN IF files[stop_lock_file(me.cur)] # Absent
          THEN Moves(c, [me EXCEPT !.pc = "stop: remove_file"])
          ELSE Moves(c, [me EXCEPT !.pc = "returned", !.kind = "ok"])
    /\ UNCHANGED <<vars, nonRaceVars>>

\* fs::remove_file(lock_file).await?; Ok(())
StopRemove(c) ==
    /\ cl[c].pc = "stop: remove_file"
    /\ LET me == cl[c]
           removal == fs_remove_file(files, stop_lock_file(me.cur))
       IN /\ files' = removal.files
          /\ IF removal.ok
             THEN Moves(c, [me EXCEPT !.pc = "returned", !.kind = "ok"])
             ELSE Moves(c, [me EXCEPT !.pc = "returned", !.kind = "err",
                                      !.err = "remove_file"])
    /\ UNCHANGED <<envVars, clientVars, nonRaceVars>>

\* The caller has looked at what the operation returned.
Taken(c) ==
    /\ cl[c].pc = "returned"
    /\ Moves(c, Resting)
    /\ UNCHANGED <<vars, nonRaceVars>>

Instances_new == cl = [c \in Instances |-> Resting]

Init ==
    /\ proc = [p \in Pids |-> "unborn"]
    /\ reqPort = [p \in Pids |-> DefaultPort]
    /\ latency = HealthTimeoutSecs
    /\ listener = [q \in Ports |-> NoPid]
    /\ dirExists \in BOOLEAN
    /\ files = NoFiles
    /\ pc = "idle"
    /\ op = "none"
    /\ port = DefaultPort
    /\ target = NoSession
    /\ graceful = "none"
    /\ acked = FALSE
    /\ killSent = FALSE
    /\ child = NoPid
    /\ spawns = 0
    /\ elapsed = 0
    /\ sessions = <<>>
    /\ purged = {}
    /\ before = NoFiles
    /\ passed = FALSE
    /\ listing = <<>>
    /\ ret = NoRet
    /\ WebSocketClient_new
    /\ ProviderManager_new
    /\ TaskManager_new
    /\ Instances_new
    /\ Terminal_new
    /\ StreamBuffer_none

Client ==
    \/ CallDiscover
    \/ CallFindActive
    \/ CallListAll
    \/ \E prt \in Ports, spawned \in BOOLEAN : CallStart(prt, spawned)
    \/ \E spawned \in BOOLEAN : CallEnsure(spawned)
    \/ Poll
    \/ PollTimeout
    \/ \E session \in Held, sendOk, acks, dies \in BOOLEAN : CallStop(session, sendOk, acks, dies)

Next == Env \/ Client

Spec == Init /\ [][Next]_vars

\* The protocol client on its own: no discovery operation runs, the session
\* directory is there and stays as it is. The answers of the consent handshake
\* are varied in ActionSpec.
WsInit == Init /\ dirExists

WsNext ==
    \/ \E s \in ZekeSession, accepted, authOk \in BOOLEAN :
          ConnectionOver /\ connect(s, accepted, authOk)
    \/ send_chat_request
    \/ \E action_id \in ActionIds : send_action_approval(action_id, TRUE, FALSE)
    \/ send_provider_switch
    \/ send_context_update
    \/ add_message_handler
    \/ SenderRecv
    \/ \E written \in BOOLEAN : SenderWrite(written)
    \/ \E message \in InFrames : ReceiverRead(message)
    \/ ReceiverReadEnd
    \/ Dispatch

WsSpec == WsInit /\ [][WsNext]_wsVars

\* The provider managers and the providers on their own.
GatewayNext ==
    \/ \E pt \in ProviderType, api_keys \in SUBSET ApiKeyNames, built \in BOOLEAN :
          CallSwitchProvider(pt, api_keys, built)
    \/ \E provider \in ProviderNames : CallSetProvider(provider)
    \/ \E script \in Scripts, approvals \in 0..MaxConsent : CallChat(script, approvals)
    \/ \E started \in BOOLEAN, chunks \in ChunkScripts : CallChatStream(started, chunks)
    \/ \E chunks \in ChunkScripts : CallHandleStream(chunks)
    \/ \E outcome \in QueryOutcomes, registry \in Registries :
          CallListModels(outcome, registry)

GatewaySpec == WsInit /\ [][GatewayNext]_gwVars

\* The locks of ZekeState and of TaskManager under concurrent callers.
TaskNext ==
    \E t \in Callers :
        \/ \E o \in {"chat", "list_models"} : ReadProviderAcquire(t, o)
        \/ ReadProviderRelease(t)
        \/ SetModelAcquire(t)
        \/ SetModelRelease(t)
        \/ CreateAcquire(t)
        \/ CreateTake(t)
        \/ CreateBump(t)
        \/ CreateTasksAcquire(t)
        \/ CreateInsert(t)
        \/ \E id \in 1..MaxTasks, status \in Statuses : UpdateAcquire(t, id, status)
        \/ UpdateApply(t)
        \/ \E id \in 1..MaxTasks : GetAcquire(t, id)
        \/ GetRelease(t)
        \/ CleanAcquire(t)
        \/ CleanApply(t)

TaskSpec == WsInit /\ [][TaskNext]_taskVars

\* The consent handshake on its own: the companion sends ActionRequests and
\* the caller answers with send_action_approval.
ActionNext ==
    \/ \E s \in ZekeSession, accepted, authOk \in BOOLEAN :
          ConnectionOver /\ connect(s, accepted, authOk)
    \/ \E action_id \in RequestIds, approved, session \in BOOLEAN :
          send_action_approval(action_id, approved, session)
    \/ add_message_handler
    \/ \E message \in ActionFrames : ReceiverRead(message)
    \/ ReceiverReadEnd
    \/ Dispatch

ActionSpec == WsInit /\ [][ActionNext]_wsVars

\* The protocol client whose caller connects again without waiting for the
\* connection it holds to be over. The companion sends on a connection only
\* after the client has replaced it, so that what arrives there arrives at the
\* tasks of the replaced connection.
ReconnectNext ==
    \/ \E s \in ZekeSession, accepted, authOk \in BOOLEAN : connect(s, accepted, authOk)
    \/ send_chat_request
    \/ add_message_handler
    \/ SenderRecv
    \/ \E written \in BOOLEAN : SenderWrite(written)
    \/ PrevSenderRecv
    \/ \E written \in BOOLEAN : PrevSenderWrite(written)
    \/ PrevSenderEnd
    \/ \E message \in InFrames : PrevReceiverRead(message)
    \/ PrevReceiverReadEnd
    \/ PrevDispatch

ReconnectSpec == WsInit /\ [][ReconnectNext]_<<wsVars, prev>>

\* Two clients on one session directory. Companions are launched, write their
\* records, listen and crash while no client operation is under way; their
\* records carry the same start_time.
RaceNext ==
    \/ Quiet /\ \E prt \in Ports : ExtLaunch(prt)
    \/ Quiet /\ \E p \in Pids : ProcWrite(p, MaxStart)
    \/ Quiet /\ \E p \in Pids : ProcListen(p)
    \/ Quiet /\ \E p \in Pids : ProcCrash(p)
    \/ Quiet /\ \E p, q \in Pids : LockCopy(p, q)
    \/ \E c \in Instances :
        \/ \E order \in EntryOrders : DiscoverBegin(c, order)
        \/ DiscoverNext(c)
        \/ DiscoverVerify(c)
        \/ \E order \in EntryOrders : CleanupBegin(c, order)
        \/ CleanupExists(c)
        \/ CleanupRemove(c)
        \/ \E session \in Held, sendOk, dies \in BOOLEAN : StopBegin(c, session, sendOk, dies)
        \/ StopExists(c)
        \/ StopRemove(c)
        \/ Taken(c)

RaceSpec == WsInit /\ [][RaceNext]_<<vars, raceVars>>

\* The terminal: commands are executed, in the caller's task or in a spawned
\* one, while tasks are cancelled and cleaned away.
ExecNext ==
    \/ \E spawned \in BOOLEAN : Execute(spawned)
    \/ \E id \in 1..MaxExecs :
        \/ ExecRunning(id)
        \/ \E outcome \in Outcomes : ExecOutput(id, outcome)
        \/ ExecAppend(id)
        \/ ExecCompleted(id)
        \/ ExecSetError(id)
        \/ CallCancelTask(id)
    \/ CallCancelAll
    \/ CallClean

ExecSpec == WsInit /\ [][ExecNext]_<<taskVars, execVars>>

\* A StreamBuffer of any capacity, pushed to and cleared.
BufferNext ==
    \/ \E cap \in 0..MaxCapacity : StreamBuffer_new(cap)
    \/ \E chunk \in ChunkTexts : push(chunk)
    \/ clear

BufferSpec == WsInit /\ [][BufferNext]_bufferVars

\* ------------------------------------------------------------------ claims
\* What the claims say, in the environment's own terms.
IsDescriptor(c) == DOMAIN c = DOMAIN NoSession
LockFiles == {f \in FileNames : f.ext = "lock"}
PidRuns(s) == proc[s.pid] \in {"launched", "wrote"}
PortAnswers(s) == listener[s.port] # NoPid /\ latency <= HealthTimeoutSecs
Live(s) == PidRuns(s) /\ PortAnswers(s)
\* the descriptors the pass just made found verified
VerifiedBefore == {before[f] : f \in {g \in LockFiles : IsDescriptor(before[g]) /\ Live(before[g])}}

\* C1: after a discover_sessions pass, every parseable .lock descriptor whose
\* pid is not running or whose port does not answer the probe is gone from the
\* session directory and is not in the returned list.
C1_StalePurged ==
    passed =>
        \A f \in LockFiles :
            (IsDescriptor(before[f]) /\ ~Live(before[f]))
                => (files[f] = Absent /\ before[f] \notin Range(sessions))

\* a pass that met a stale record beside a live one
C1_Witness ==
    /\ passed
    /\ ret.op = "discover_sessions"
    /\ sessions # <<>>
    /\ \E f \in purged : IsDescriptor(before[f]) /\ ~PidRuns(before[f]) /\ PortAnswers(before[f])

\* C2: find_active_session returns None when no descriptor verifies, and
\* otherwise a verified descriptor of maximal start_time.
C2_NewestVerified ==
    ret.op = "find_active_session" =>
        IF VerifiedBefore = {}
        THEN ret.kind = "none"
        ELSE /\ ret.kind = "some"
             /\ ret.session \in VerifiedBefore
             /\ \A v \in VerifiedBefore : v.start_time <= ret.session.start_time

\* two verified sessions started at different times
C2_Witness ==
    /\ ret.op = "find_active_session"
    /\ ret.kind = "some"
    /\ \E v \in VerifiedBefore : v.start_time < ret.session.start_time

\* C3: with several verified descriptors of the same, maximal start_time,
\* find_active_session picks the same one whatever order read_dir yields
\* the lock files in.
C3_TieBreakIndependentOfOrder ==
    \A o1, o2 \in EntryOrders :
        first_session(discover_sessions(o1).sessions)
            = first_session(discover_sessions(o2).sessions)

\* a session with the id and port of s comes back from a pass made now
Rediscovered(s) ==
    \A o \in EntryOrders :
        \E t \in Range(discover_sessions(o).sessions) :
            t.session_id = s.session_id /\ t.port = s.port

StartReturned == ret.kind = "some" /\ spawns = 1

\* C4: when start_zeke_cli(port) returns a session S, the descriptor of S is in
\* the session directory, S was written by the process just launched, and a
\* discovery made at once returns a session with S's session_id and port.
C4_StartRoundTrip ==
    StartReturned =>
        /\ files[LockName(ret.session.session_id)] = ret.session
        /\ ret.session.pid = child
        /\ Rediscovered(ret.session)

\* C5: ensure_connection launches a companion exactly when discovery finds no
\* verified session: a verified session is returned without a spawn; without
\* one, a single process is launched and the call gives back that process's
\* verified session or a start-up error.
C5_EnsureLaunchesIffNone ==
    /\ spawns <= 1
    /\ (ret.op = "ensure_connection" /\ spawns = 0)
          => (ret.kind = "some" /\ sessions # <<>> /\ ret.session = sessions[1]
              /\ ret.session \in VerifiedBefore /\ child = NoPid)
    /\ (op = "ensure_connection" /\ pc = "polling" /\ elapsed = 0 /\ passed)
          => (VerifiedBefore = {} /\ spawns = 1)
    /\ (ret.op = "ensure_connection" /\ spawns = 1)
          => (ret.kind = "err" \/ (ret.kind = "some" /\ ret.session.pid = child /\ Live(ret.session)))

Iteration == PassMs + PollIntervalMs
TenSeconds == StartTimeoutSecs * 1000

\* C6: start_zeke_cli terminates: the polling loop makes no pass once the
\* 10 s are over, the caller then gets an error, the number of passes is
\* bounded by the timeout, and a session it returns is bound to the requested
\* port.
C6_StartTerminates ==
    /\ pc = "polling" =>
          /\ elapsed % Iteration = 0
          /\ elapsed < TenSeconds + Iteration
          /\ (elapsed >= TenSeconds => (~ENABLED Poll /\ ENABLED PollTimeout))
          /\ (elapsed < TenSeconds => ENABLED Poll)
    /\ StartReturned => ret.session.port = port
    /\ (spawns = 1 /\ pc = "idle") => ret.kind \in {"some", "err"}

\* the timeout expired on a start whose child never became ready
C6_Witness ==
    /\ ret.kind = "err"
    /\ ret.err = "timeout"
    /\ ret.op = "start_zeke_cli"
    /\ child # NoPid

\* a start that returned a session on the second port
C6_WitnessReturned ==
    /\ StartReturned
    /\ ret.session.port # DefaultPort

\* C7: stop_session sends the forced termination signal exactly when the
\* graceful attempt failed, failure being a connection or send error or the
\* absence of an acknowledgment from the companion.
C7_KillIffGracefulFailed ==
    ret.op = "stop_session" =>
        (killSent <=> (graceful = "err" \/ ~acked))

C8_WitnessGraceful ==
    /\ target # NoSession
    /\ graceful = "ok"
    /\ before[LockName(target.session_id)] = target

\* C9: a session is judged active exactly when its pid is a running process
\* and the probe on its port succeeds within the 2 s timeout.
C9_ActiveIffBoth ==
    passed =>
        \A f \in LockFiles :
            IsDescriptor(before[f]) =>
                /\ (before[f] \in Range(sessions)) <=> (PidRuns(before[f]) /\ PortAnswers(before[f]))
                /\ (f \in purged) <=> ~(PidRuns(before[f]) /\ PortAnswers(before[f]))

\* a running pid whose port has a listener that is too slow: the probe alone fails
C9_Witness ==
    /\ passed
    /\ \E f \in purged :
          /\ IsDescriptor(before[f])
          /\ PidRuns(before[f])
          /\ listener[before[f].port] # NoPid
          /\ latency > HealthTimeoutSecs

\* C10 as claimed: a descriptor that fails to parse or fails verification
\* stops nothing, every verified descriptor is returned, and the failing
\* record is purged.
C10_FailingRecordPurged ==
    passed =>
        /\ (ret.op = "discover_sessions" => ret.kind = "list")
        /\ VerifiedBefore \subseteq Range(sessions)
        /\ \A f \in LockFiles :
              (before[f] # Absent /\ before[f] \notin VerifiedBefore) => files[f] = Absent

\* C10 as amended: a record that fails verification is purged, a record that
\* fails to parse is skipped and stays in the directory; neither stops the
\* enumeration, and every verified descriptor is returned.
C10_FailingRecordSkipped ==
    passed =>
        /\ (ret.op = "discover_sessions" => ret.kind = "list")
        /\ VerifiedBefore = Range(sessions)
        /\ \A f \in LockFiles :
              /\ before[f] \in VerifiedBefore => files[f] = before[f]
              /\ (IsDescriptor(before[f]) /\ before[f] \notin VerifiedBefore) => files[f] = Absent
              /\ ~IsDescriptor(before[f]) => files[f] = before[f]

\* an unparseable record, a stale one and a verified one in the same pass
C10_Witness ==
    /\ passed
    /\ sessions # <<>>
    /\ \E f \in LockFiles : before[f] = Garbage /\ files[f] = Garbage

\* C11: on a session directory that is empty or does not exist,
\* discover_sessions returns an empty Vec and no error, find_active_session
\* returns None, and neither creates the directory or puts anything into it.
C11_EmptyDirectory ==
    [][(pc = "idle" /\ Entries = {} /\ ret'.op \in {"discover_sessions", "find_active_session"})
        => /\ sessions' = <<>>
           /\ ret'.kind = (IF ret'.op = "discover_sessions" THEN "list" ELSE "none")
           /\ files' = files
           /\ dirExists' = dirExists]_vars

\* discover_sessions has just returned on a directory that does not exist
C11_Witness ==
    /\ ret.op = "discover_sessions"
    /\ passed
    /\ ~dirExists
    /\ before = NoFiles

\* find_active_session has just returned on a directory that exists and is empty
C11_WitnessEmpty ==
    /\ ret.op = "find_active_session"
    /\ passed
    /\ dirExists
    /\ before = NoFiles

\* the descriptors list_all_sessions found in the directory
ParseableBefore == {f \in LockFiles : IsDescriptor(before[f])}

\* C12: list_all_sessions returns every parseable descriptor of the directory
\* once, each with a flag that is true exactly for a running pid with an
\* answering port, newest start_time first, and deletes no file.
C12_ListAllKeepsFiles ==
    ret.op = "list_all_sessions" =>
        /\ ret.kind = "list"
        /\ files = before
        /\ Len(listing) = Cardinality(ParseableBefore)
        /\ {listing[i].session : i \in 1..Len(listing)} = {before[f] : f \in ParseableBefore}
        /\ \A i \in 1..Len(listing) : listing[i].active <=> Live(listing[i].session)
        /\ \A i, j \in 1..Len(listing) :
              i < j => listing[i].session.start_time >= listing[j].session.start_time

\* a listing of an inactive session ahead of an older active one
C12_Witness ==
    /\ ret.op = "list_all_sessions"
    /\ Len(listing) = 2
    /\ ~listing[1].active
    /\ listing[2].active
    /\ listing[1].session.start_time > listing[2].session.start_time

\* ---- claims about the protocol client (WsSpec)
\* C13: while the client has no active connection, each of the four send
\* operations returns the not-connected error and leaves the channel empty.
C13_SendNeedsConnection ==
    (wsRet.op \in SendOps /\ ~is_connected) =>
        /\ wsRet = WsErr(wsRet.op, "WebSocket not connected")
        /\ chan = <<>>
        /\ enqueued = <<>>
        /\ inflight = NoFrame
        /\ wire = <<>>

\* send_action_approval has just returned on a client that was never connected
C13_Witness ==
    /\ wsRet.op = "send_action_approval"
    /\ ~is_connected
    /\ get_session = NoZekeSession

\* frames the sender task wrote: the transport's frames after the auth message
PumpWritten == IF wire = <<>> THEN <<>> ELSE Tail(wire)

IsPrefix(s, t) == Len(s) <= Len(t) /\ \A i \in 1..Len(s) : s[i] = t[i]

\* C14: on a connection, the frames the sender task has written are a prefix
\* of the frames the channel accepted (requests and automatic Pongs), in the
\* order it accepted them.
C14_WrittenPrefixOfEnqueued == IsPrefix(PumpWritten, enqueued)

\* a Pong and a request, enqueued in that order by the receiver task and a
\* caller, both written
C14_Witness ==
    /\ Len(PumpWritten) = 2
    /\ PumpWritten[1].kind = "Pong"
    /\ PumpWritten[2].kind = "Text"

\* C15: on every connection the first frame on the transport is the auth
\* message with the session's token, no later frame is one, and connect
\* returns Ok with the auth message written and nothing read yet.
C15_AuthFirst ==
    /\ senderTask # "none" => wire # <<>>
    /\ wire # <<>> =>
          /\ wire[1] = Frame("Text", "auth", client_session.auth_token)
          /\ \A i \in 2..Len(wire) : wire[i].tag # "auth"
    /\ wsRet = WsOk("connect") =>
          /\ Len(wire) = 1
          /\ arrived = <<>>
          /\ enqueued = <<>>

\* a connection that has written a Pong after its auth message
C15_Witness ==
    /\ client_session.auth_token = 2
    /\ Len(wire) = 2
    /\ wire[2].kind = "Pong"

\* the invocations a message other than Ping must get: every handler
\* registered when its dispatch began, in registration order
Invocations(k) ==
    IF arrived[k].kind = "Text" /\ arrived[k].tag \in StreamMessage \ {"Ping"}
    THEN [i \in 1..Len(snapshot[k]) |->
              [handler |-> snapshot[k][i], k |-> k, msg |-> arrived[k].tag]]
    ELSE <<>>

RECURSIVE InvocationsUpTo(_)
InvocationsUpTo(k) == IF k = 0 THEN <<>> ELSE InvocationsUpTo(k - 1) \o Invocations(k)

NotPing(d) == d.msg # "Ping"

\* C16: the handler invocations for messages other than Ping are, message by
\* message in arrival order, one invocation of every handler registered at
\* dispatch time, in registration order; the dispatch in progress has made a
\* prefix of its invocations.
C16_BroadcastInOrder ==
    LET got == SelectSeq(delivered, NotPing)
    IN /\ IsPrefix(got, InvocationsUpTo(Len(arrived)))
       /\ receiverTask # "dispatch" => got = InvocationsUpTo(Len(arrived))
       /\ receiverTask = "dispatch" => IsPrefix(InvocationsUpTo(Len(arrived) - 1), got)

\* a message delivered to the one handler registered then, and the next
\* message to that handler and one registered since
C16_Witness ==
    /\ Len(arrived) = 2
    /\ Len(snapshot[1]) = 1
    /\ Len(snapshot[2]) = 2
    /\ Len(delivered) = 3
    /\ receiverTask = "read"

IsPing(f) == f.kind = "Ping" \/ (f.kind = "Text" /\ f.tag = "Ping")

\* C17: every Ping the receiver task reads while the outbound pump runs, a
\* Ping frame or a Text frame whose "type" is "Ping", makes it enqueue one
\* Pong and start no dispatch to the handlers.
C17_EveryPingAnswered ==
    [][(receiverTask = "read" /\ rxAlive /\ Len(arrived') = Len(arrived) + 1
            /\ IsPing(arrived'[Len(arrived')]))
       => /\ Len(enqueued') = Len(enqueued) + 1
          /\ enqueued'[Len(enqueued')].kind = "Pong"
          /\ receiverTask' # "dispatch"]_wsVars

Unparseable(f) == f.kind = "Text" /\ f.tag \notin StreamMessage

DeliveredTo(k) == {i \in 1..Len(delivered) : delivered[i].k = k}

\* C18: a Text frame that is no StreamMessage is dropped: reading it invokes
\* no handler and enqueues nothing, the receiver task goes on reading, and a
\* StreamMessage read after it is dispatched to the handlers.
C18_UnparseableDropped ==
    [][(receiverTask = "read" /\ Len(arrived') = Len(arrived) + 1)
       => /\ Unparseable(arrived'[Len(arrived')])
             => /\ delivered' = delivered
                /\ enqueued' = enqueued
                /\ chan' = chan
                /\ receiverTask' = "read"
          /\ (arrived # <<>> /\ Unparseable(arrived[Len(arrived)])
                /\ arrived'[Len(arrived')] = Frame("Text", "ChatDelta", 0)
                /\ message_handlers # <<>>)
             => receiverTask' = "dispatch"]_wsVars

\* an unparseable frame followed by a message a handler got
C18_Witness ==
    /\ Len(arrived) = 2
    /\ Unparseable(arrived[1])
    /\ arrived[2] = Frame("Text", "ChatDelta", 0)
    /\ DeliveredTo(2) # {}

\* C19: a failed write ends the sender task; from then on, on this connection,
\* nothing more is written, the channel accepts nothing, and every send
\* operation returns an error.
C19_WriteFailureIsLoss ==
    [][/\ (senderTask = "write" /\ senderTask' # "write" /\ wire' = wire)
            => senderTask' = "ended"
       /\ (senderTask = "ended" /\ wsRet' # WsOk("connect"))
            => /\ senderTask' = "ended"
               /\ wire' = wire
               /\ enqueued' = enqueued
               /\ chan' = <<>>
               /\ wsRet'.op \in SendOps => wsRet'.kind = "err"]_wsVars

\* a send operation has just failed on a connection whose write failed
C19_Witness ==
    /\ senderTask = "ended"
    /\ wsRet.op = "send_chat_request"
    /\ wsRet.kind = "err"
    /\ enqueued # <<>>

\* C20: is_connected is true exactly when a session and a sender are there:
\* false, with get_session None, until a connect succeeded, true once one did,
\* and still true when a pump has ended.
C20_IsConnected ==
    /\ is_connected <=> (client_session \in ZekeSession /\ client_sender)
    /\ senderTask = "none" => ~is_connected /\ get_session = NoZekeSession
    /\ senderTask # "none" => is_connected
    /\ wsRet = WsOk("connect") => is_connected
    /\ (senderTask = "ended" \/ receiverTask = "ended") => is_connected

\* both pumps of a connection have ended, one on a write failure
C20_Witness ==
    /\ senderTask = "ended"
    /\ receiverTask = "ended"
    /\ is_connected

\* C21: once connect has replaced a connection, the tasks of the replaced
\* connection write no frame to their transport and invoke none of the
\* client's handlers: only the connection the client holds is live.
C21_ReplacedPumpsSilent ==
    prev.wire = <<>> /\ prev.delivered = <<>>

IsRequest(f, id) == f.tag = "ActionRequest" /\ f.n = id
IsResponse(f, id) == f.tag = "ActionResponse" /\ f.n = id
Received(id) == \E k \in 1..Len(arrived) : IsRequest(arrived[k], id)
Responses(id) == {i \in 1..Len(enqueued) : IsResponse(enqueued[i], id)}

\* C22: on a connection the client enqueues at most one ActionResponse for an
\* id, and none for an id of which it received no ActionRequest there.
C22_OneResponsePerRequest ==
    \A id \in RequestIds :
        Cardinality(Responses(id)) <= IF Received(id) THEN 1 ELSE 0

\* the action_type of the ActionRequest with this id, "none" if none was received
TypeOf(id) ==
    IF Received(id)
    THEN arrived[CHOOSE k \in 1..Len(arrived) : IsRequest(arrived[k], id)].action_type
    ELSE "none"

\* a session-scoped approval for an action of this type was sent on the connection
Remembered(t) ==
    \E i \in 1..Len(enqueued) :
        /\ enqueued[i].tag = "ActionResponse"
        /\ enqueued[i].approved
        /\ enqueued[i].session
        /\ TypeOf(enqueued[i].n) = t

\* C23: an ActionRequest that arrives after the client answered one of the
\* same action_type with approved = true and session = true on that connection
\* is not handed to the handlers again.
C23_SessionApprovalRemembered ==
    [][(/\ receiverTask = "read"
        /\ Len(arrived') = Len(arrived) + 1
        /\ arrived'[Len(arrived')].tag = "ActionRequest"
        /\ Remembered(arrived'[Len(arrived')].action_type))
       => receiverTask' # "dispatch"]_wsVars

\* the model a manager reports for a provider of this type
ModelFor(pt) ==
    CASE pt = "GhostLLM" -> "auto (GhostLLM)"
      [] pt = "OpenAI" -> "gpt-4"
      [] pt = "Claude" -> "claude-3-sonnet"
      [] pt = "Ollama" -> "llama3:8b"
      [] pt = "Copilot" -> "copilot"

\* C24: when switch_provider or set_provider has just failed, the active
\* provider, the provider type and the current model are what they were before
\* the call; when it has just succeeded, all of them are those of the provider
\* asked for.
C24_SwitchAllOrNothing ==
    /\ gwRet.op = "switch_provider" =>
          IF gwRet.kind = "err"
          THEN Observed = gwRet.before
          ELSE /\ current_provider = gwRet.asked
               /\ get_provider_type = gwRet.asked
               /\ get_current_model = ModelFor(gwRet.asked)
    /\ gwRet.op = "set_provider" =>
          IF gwRet.kind = "err"
          THEN Observed = gwRet.before
          ELSE /\ get_current_provider = gwRet.asked
               /\ named_current_model = providers[gwRet.asked]

\* switch_provider has just failed for want of the key of a provider that is
\* not the active one
C24_Witness ==
    /\ gwRet.op = "switch_provider"
    /\ gwRet.kind = "err"
    /\ gwRet.err = "key not found"
    /\ gwRet.asked # gwRet.before.provider_type
    /\ gwRet.before.provider_type # "GhostLLM"

\* C25: one call of chat on the routed provider posts the request at most
\* twice, and ends with an error when the backend required consent twice.
C25_OneConsentRetry ==
    gwRet.op = "chat" =>
        /\ gwRet.requests <= 2
        /\ gwRet.consents >= 2 => gwRet.kind = "err"

\* C26: chat_stream on the provider without streaming returns an error and no
\* stream without having sent a request, and leaves the manager as it was.
C26_UnsupportedStreaming ==
    (gwRet.op = "chat_stream" /\ gwRet.before.current_provider = "Copilot") =>
        /\ gwRet.kind = "err"
        /\ gwRet.err = "Streaming not supported for Copilot provider"
        /\ gwRet.requests = 0
        /\ gwRet.items = <<>>
        /\ Observed = gwRet.before

\* chat_stream has just returned on the Copilot provider, whose backend would
\* have streamed two chunks
C26_Witness ==
    /\ gwRet.op = "chat_stream"
    /\ gwRet.before.current_provider = "Copilot"
    /\ Len(gwRet.script) = 2

\* C27: when an item of the stream is an error, handle_stream returns that
\* error to its caller instead of the text gathered so far.
C27_ErrorSurfaced ==
    (gwRet.op = "handle_stream" /\ \E i \in 1..Len(gwRet.items) : ~gwRet.items[i].ok)
        => gwRet.kind = "err"

\* C28: list_models of the local-model and of the routed provider, when the
\* query of the registry failed, returns that provider's hardcoded catalog,
\* which is not empty.
C28_ListModelsFallsBack ==
    (/\ gwRet.op = "list_models"
     /\ gwRet.before.current_provider \in {"Ollama", "GhostLLM"}
     /\ gwRet.asked # "listed")
    => /\ gwRet.kind = "ok"
       /\ gwRet.models # <<>>
       /\ gwRet.models \in
            IF gwRet.before.current_provider = "Ollama"
            THEN {OllamaFallback}
            ELSE {GhostLLMStatusFallback, GhostLLMFallback}

\* list_models has just returned on the local-model provider whose backend is
\* unreachable
C28_Witness ==
    /\ gwRet.op = "list_models"
    /\ gwRet.before.current_provider = "Ollama"
    /\ gwRet.asked = "unreachable"

C29_WitnessReaders ==
    locks["provider_manager"].readers = Callers

\* C30: the ids create_task inserted are, in the order of the inserts, strictly
\* increasing from 1, so that none is used twice, before or after
\* clean_completed_tasks; every entry of the map is the task inserted under
\* its key.
C30_TaskIdsIncrease ==
    /\ created # <<>> => created[1] = 1
    /\ \A i, j \in 1..Len(created) : i < j => created[i] < created[j]
    /\ \A k \in DOMAIN tasks : tasks[k].id = k /\ k \in Range(created)

\* a task was created after the first one had been cleaned away, while the
\* other caller is inside create_task
C30_Witness ==
    /\ Len(created) >= 2
    /\ created[1] \notin DOMAIN tasks
    /\ created[Len(created)] \in DOMAIN tasks
    /\ \E t \in Callers : local[t].pc = "create: tasks"

\* C31: while start_zeke_cli polls, a discover_sessions pass of its own loop
\* never deletes the descriptor of the companion it launched while that
\* companion runs: a descriptor written before the endpoint answers is still
\* there when the endpoint becomes responsive.
C31_PollKeepsOwnDescriptor ==
    (pc = "polling" /\ passed /\ elapsed > 0 /\ Running(child))
        => LockName(child) \notin purged

\* C32: when two clients work on the same session directory at once, no
\* operation of either fails because the other removed a descriptor between
\* its existence check or read and its own removal, and discover_sessions
\* returns only sessions whose liveness the call itself verified.
C32_RaceNeverFails ==
    \A c \in Instances :
        cl[c].pc = "returned" =>
            /\ cl[c].kind = "ok"
            /\ Range(cl[c].acc) \subseteq cl[c].verified

\* C33: a cleanup_stale_sessions call that had the directory to itself leaves
\* no parseable descriptor that is inactive, leaves every active descriptor
\* in place, and returns the number of descriptor files it deleted, whatever
\* the descriptors' file names are.
C33_CleanupExact ==
    \A c \in Instances :
        (cl[c].pc = "returned" /\ cl[c].op = "cleanup_stale_sessions" /\ cl[c].alone) =>
            /\ cl[c].kind = "ok"
            /\ \A f \in LockFiles : IsDescriptor(files[f]) => Live(files[f])
            /\ \A f \in LockFiles :
                  (IsDescriptor(cl[c].start[f]) /\ Live(cl[c].start[f]))
                      => files[f] = cl[c].start[f]
            /\ cl[c].cleaned =
                  Cardinality({f \in FileNames : cl[c].start[f] # Absent /\ files[f] = Absent})

\* C34: in one call of chat on the routed provider, every retry of the request
\* follows an approve_consent call that succeeded; approve_consent is called
\* once for each consent_required answer and for no other answer; when an
\* approval fails the call returns an error without another request and
\* without another approval.
C34_RetryOnlyAfterApproval ==
    gwRet.op = "chat" =>
        LET required == {i \in 1..gwRet.requests : gwRet.script[i] = "403 consent_required"}
        IN  /\ gwRet.consents = Cardinality(required)
            /\ gwRet.requests - 1 <= gwRet.approvals
            /\ gwRet.consents > gwRet.approvals =>
                  /\ gwRet.kind = "err"
                  /\ gwRet.requests = gwRet.consents
                  /\ gwRet.consents = gwRet.approvals + 1
            /\ gwRet.script[gwRet.requests] \notin {"200", "403 consent_required"} =>
                  /\ gwRet.kind = "err"
                  /\ gwRet.consents = gwRet.requests - 1

\* the first approval went through, the retry was answered with
\* consent_required again and the second approval failed
C34_Witness ==
    /\ gwRet.op = "chat"
    /\ gwRet.err = "Failed to approve consent"
    /\ gwRet.approvals = 1
    /\ gwRet.requests = 2
    /\ gwRet.consents = 2

\* C35: whatever switch_provider calls succeeded or failed, is_ghostllm_enabled
\* is true exactly when get_provider_type is GhostLLM, and get_current_model is
\* the model label of get_provider_type.
C35_RoutingMetadataConsistent ==
    /\ is_ghostllm_enabled <=> (get_provider_type = "GhostLLM")
    /\ get_current_model = ModelFor(get_provider_type)

\* the items of a stream that come before its first Err item
RECURSIVE Produced(_)
Produced(items) ==
    IF items = <<>> \/ ~Head(items).ok THEN <<>>
    ELSE <<Head(items).text>> \o Produced(Tail(items))

\* the fragments of a concatenation that are not empty
NonEmpty(fragment) == fragment # ""

\* C36: handle_stream returns Ok with the concatenation, in yield order, of
\* the fragments the stream produced before its first failing item, has given
\* exactly these fragments to the channel of next_chunk, once each and in the
\* same order, and has asked the stream for no item after the first failure.
C36_FragmentsBeforeFailure ==
    gwRet.op = "handle_stream" =>
        LET good == Produced(gwRet.items)
        IN  /\ gwRet.kind = "ok"
            /\ gwRet.text = SelectSeq(good, NonEmpty)
            /\ gwRet.sent = good
            /\ gwRet.polled = IF Len(good) < Len(gwRet.items) THEN Len(good) + 1
                              ELSE Len(good)

\* a stream whose first item failed and that had a fragment left after it
C36_Witness ==
    /\ gwRet.op = "handle_stream"
    /\ Len(gwRet.items) = 2
    /\ ~gwRet.items[1].ok
    /\ gwRet.items[2].ok
    /\ gwRet.items[2].text # ""

\* a stream that produced a fragment and then failed
C36_WitnessKept ==
    /\ gwRet.op = "handle_stream"
    /\ Len(gwRet.items) = 2
    /\ gwRet.items[1].ok
    /\ ~gwRet.items[2].ok
    /\ gwRet.text # <<>>

\* C37: a task of execute_command_async whose status is Cancelled keeps that
\* status as long as it is in the map, whatever its executor does afterwards,
\* and so does one that is Completed or Failed.
C37_CancelledStays ==
    [][\A id \in DOMAIN tasks \cap DOMAIN tasks' :
          (execs[id].spawned /\ tasks[id].status \in {"Cancelled", "Completed", "Failed"})
              => tasks'[id].status = tasks[id].status]_<<taskVars, execVars>>

\* C38: when the executor of a task has ended and the task was not cancelled,
\* the task is Completed and holds the command's output, or it is Failed, and
\* it is Failed exactly when its error is set; this includes the subprocess
\* that could not be spawned.
C38_EndsCompletedOrFailed ==
    \A id \in DOMAIN execs \cap DOMAIN tasks :
        (execs[id].pc = "done" /\ tasks[id].status # "Cancelled") =>
            /\ tasks[id].status \in {"Completed", "Failed"}
            /\ tasks[id].status = "Completed" => tasks[id].output = <<"stdout">>
            /\ tasks[id].status = "Failed" <=> tasks[id].error # "none"

\* the last n elements of a sequence
LastOf(s, n) == SubSeq(s, Len(s) - n + 1, Len(s))

\* C39: whatever its capacity is, 0 included, no push to a StreamBuffer fails,
\* the buffer never holds more chunks than its capacity, and get_content is
\* the concatenation, in push order, of the most recent min(capacity, number
\* of pushes since the last clear) chunks.
C39_BufferKeepsNewest ==
    constructed =>
        /\ sbRet.kind # "panic"
        /\ Len(buffer) <= capacity
        /\ get_content =
              join(LastOf(pushes, IF capacity < Len(pushes) THEN capacity ELSE Len(pushes)))

====
